---- MODULE Spec2Model ----
(***************************************************************************)
(* A model of the LRU cache engine of src/lru/src/lru/lru_cache.rs.        *)
(*                                                                         *)
(* The heap is a function from node addresses to LRUEntry records; the     *)
(* hash index is a function from keys to node addresses (a KeyRef hashes   *)
(* and compares as the key it points to).  Every method of the cache is    *)
(* an operator from a cache value to a record holding the cache after the  *)
(* call and the value the call returns; every action of the state machine  *)
(* is one call of one public method.                                       *)
(***************************************************************************)
EXTENDS Integers, Sequences, FiniteSets, TLC

\* ------------------------------------------------------------------ bounds
NumKeys == 3
NumVals == 2
MaxCap == 3

Keys == 1..NumKeys
Vals == 1..NumVals
Caps == 1..MaxCap

\* ------------------------------------------------------- addresses, values
\* null_mut()
NULL == 0
\* the address of the head sigil
HEAD == 1
\* the address of the tail sigil
TAIL == 2
\* the stack slot a node is moved to by `*Box::from_raw(ptr)`
STACK == 3
\* the content of a MaybeUninit::uninit() slot
UNINIT == 0

\* heap addresses Box::new may return: one more than the cache can ever hold
HeapAddrs == (STACK + 1)..(STACK + 1 + MaxCap)

\* Option<T>
None == <<>>
Some(x) == <<x>>

VARIABLES
    cache,      \* the LRUCache value: [nodes, map, cap]
    tracking,   \* whether this behaviour keeps the history `touched`
    touched,    \* history: keys in the cache, most recently touched first
    it,         \* the iterator over the cache: [kind, len, ptr, end]
    itret,      \* the last return of the iterator: "-", "Some" or "None"
    yieldedFront,   \* history: the pairs next() has yielded, in order
    yieldedBack,    \* history: the pairs next_back() has yielded, in order
    snap,       \* history: iter() of the cache when the iterator was made
    inserted,   \* history: [on, resized, keys], the keys handed to the cache
                \* and not explicitly removed since, kept when on is TRUE
    config,     \* the service's configuration: [cache_mode, cache_size]
    lock,       \* Tools.lru_cache's RwLock: the handlers holding a guard
    handlers,   \* the request each handler task serves, and where it is
    serial,     \* history: the cache and the responses that the requests
                \* give when served one by one in the order of the lock
    owned,      \* history: [on, keys, values, bad], the keys and values
                \* handed to the cache and neither dropped nor returned yet
    returned,   \* history: [on, bufs], the payloads whose upload has
                \* returned its key to the client, kept when on is TRUE
    twin        \* the instance clone() has made, if any: its fields, whether
                \* it is live, and (history) what iter() gave when it was made

itervars == <<it, itret, yieldedFront, yieldedBack, snap>>

httpvars == <<config, lock, handlers, serial, returned>>

vars == <<cache, tracking, touched, it, itret, yieldedFront, yieldedBack,
          snap, inserted, config, lock, handlers, serial, owned, returned,
          twin>>

\* clone() has not been called
NoTwin == [state |-> "none", self |-> <<>>, made |-> <<>>]

\* ------------------------------------------------------------- LRUEntry
LRUEntry_new(key, val) ==
    [key |-> key, value |-> val, prev |-> NULL, next |-> NULL]

LRUEntry_new_sigil ==
    [key |-> UNINIT, value |-> UNINIT, prev |-> NULL, next |-> NULL]

\* ------------------------------------------------------------ heap, index
\* Box::into_raw(Box::new(e)): the allocator hands out the lowest free address
BoxNew(nodes) ==
    CHOOSE a \in HeapAddrs \ DOMAIN nodes :
        \A b \in HeapAddrs \ DOMAIN nodes : a <= b

Alloc(nodes, a, e) ==
    [m \in DOMAIN nodes \cup {a} |-> IF m = a THEN e ELSE nodes[m]]

\* `*Box::from_raw(ptr)`: the node is moved to a local and its box is freed
Unbox(nodes, ptr) ==
    [m \in (DOMAIN nodes \ {ptr}) \cup {STACK} |->
        IF m = STACK THEN nodes[ptr] ELSE nodes[m]]

\* the local goes out of scope
DropLocal(nodes) ==
    [m \in DOMAIN nodes \ {STACK} |-> nodes[m]]

MapRemove(map, k) ==
    [j \in DOMAIN map \ {k} |-> map[j]]

\* an insertion that the index forgets
MapInsert_none(map, k, node) == map

MapInsert(map, k, node) ==
    [j \in DOMAIN map \cup {k} |-> IF j = k THEN node ELSE map[j]]

\* ---------------------------------------------------------- list primitives
construct(cap) ==
    [nodes |-> [a \in {HEAD, TAIL} |->
                    IF a = HEAD
                    THEN [LRUEntry_new_sigil EXCEPT !.next = TAIL]
                    ELSE [LRUEntry_new_sigil EXCEPT !.prev = HEAD]],
     map |-> <<>>,
     cap |-> cap]

new(cap) == construct(cap)

\* usize::MAX; the largest integer the model's arithmetic has stands for it
USIZE_MAX == 2147483647

\* unbounded that builds a cache of capacity 1
unbounded_cap_one == construct(1)

unbounded == construct(USIZE_MAX)

unbounded_with_hasher == construct(USIZE_MAX)

\* the hasher only decides where the index keeps an entry
with_hasher(cap) == construct(cap)

\* detach that relinks the predecessor only
detach_forward_only(nodes, node) ==
    [nodes EXCEPT ![nodes[node].prev].next = nodes[node].next]

detach(nodes, node) ==
    LET n1 == [nodes EXCEPT ![nodes[node].prev].next = nodes[node].next]
    IN  [n1 EXCEPT ![n1[node].next].prev = n1[node].prev]

\* attach with the two ends of the list confused
attach_at_tail(nodes, node) ==
    LET n1 == [nodes EXCEPT ![node].next = TAIL]
        n2 == [n1 EXCEPT ![node].prev = n1[TAIL].prev]
        n3 == [n2 EXCEPT ![TAIL].prev = node]
    IN  [n3 EXCEPT ![n3[node].prev].next = node]

attach(nodes, node) ==
    LET n1 == [nodes EXCEPT ![node].next = nodes[HEAD].next]
        n2 == [n1 EXCEPT ![node].prev = HEAD]
        n3 == [n2 EXCEPT ![HEAD].next = node]
    IN  [n3 EXCEPT ![n3[node].next].prev = node]

\* attach_last linking the node after head
attach_last_at_head(nodes, node) ==
    LET n1 == [nodes EXCEPT ![node].next = nodes[HEAD].next]
        n2 == [n1 EXCEPT ![node].prev = HEAD]
        n3 == [n2 EXCEPT ![HEAD].next = node]
    IN  [n3 EXCEPT ![n3[node].next].prev = node]

attach_last(nodes, node) ==
    LET n1 == [nodes EXCEPT ![node].next = TAIL]
        n2 == [n1 EXCEPT ![node].prev = n1[TAIL].prev]
        n3 == [n2 EXCEPT ![TAIL].prev = node]
    IN  [n3 EXCEPT ![n3[node].prev].next = node]

len(c) == Cardinality(DOMAIN c.map)

cap(c) == c.cap

is_empty(c) == Cardinality(DOMAIN c.map) = 0

\* the result of a call: the cache after it, the value returned, and the
\* entry replace_or_create_node took out of the recycled node (if any)
\* ref is the node whose value field a returned &mut V points into, NULL
\* when the method returns no such reference
Ret(c, ret, replaced) ==
    [cache |-> c, ret |-> ret, replaced |-> replaced, ref |-> NULL]

\* a write through a &mut V: *v = w
write(c, ref, w) == [c EXCEPT !.nodes[ref].value = w]

\* the result of get_or_insert / get_or_insert_mut: the reference returned
\* is to the value field of node_ptr; calls counts the calls of the factory
RetRef(c, node_ptr, replaced, calls) ==
    [cache |-> c, ret |-> c.nodes[node_ptr].value, ref |-> node_ptr,
     replaced |-> replaced, calls |-> calls]

\* detach_last taking the node after head instead of the node before tail
detach_last_first(c) ==
    LET next == c.nodes[HEAD].next
    IN  IF next # TAIL
        THEN LET old_key == c.nodes[next].key
                 old_node == c.map[old_key]
                 map1 == MapRemove(c.map, old_key)
             IN  [cache |-> [c EXCEPT !.map = map1,
                                      !.nodes = detach(c.nodes, old_node)],
                  node |-> Some(old_node)]
        ELSE [cache |-> c, node |-> None]

\* returns [cache, node]: node is Some(the detached box) or None
detach_last(c) ==
    LET prev == c.nodes[TAIL].prev
    IN  IF prev # HEAD
        THEN LET old_key == c.nodes[prev].key
                 old_node == c.map[old_key]
                 map1 == MapRemove(c.map, old_key)
             IN  [cache |-> [c EXCEPT !.map = map1,
                                      !.nodes = detach(c.nodes, old_node)],
                  node |-> Some(old_node)]
        ELSE [cache |-> c, node |-> None]

\* replace_or_create_node recycling the node after head instead of the node
\* before tail
replace_or_create_node_first(c, k, v) ==
    IF len(c) = cap(c)
    THEN LET old_key == c.nodes[c.nodes[HEAD].next].key
             old_node == c.map[old_key]
             map1 == MapRemove(c.map, old_key)
             replaced == <<c.nodes[old_node].key, c.nodes[old_node].value>>
             n1 == [c.nodes EXCEPT ![old_node].key = k, ![old_node].value = v]
         IN  [cache |-> [c EXCEPT !.map = map1, !.nodes = detach(n1, old_node)],
              replaced |-> Some(replaced),
              node |-> old_node]
    ELSE LET a == BoxNew(c.nodes)
         IN  [cache |-> [c EXCEPT !.nodes = Alloc(c.nodes, a, LRUEntry_new(k, v))],
              replaced |-> None,
              node |-> a]

\* returns [cache, replaced, node]
replace_or_create_node(c, k, v) ==
    IF len(c) = cap(c)
    THEN LET old_key == c.nodes[c.nodes[TAIL].prev].key
             old_node == c.map[old_key]
             map1 == MapRemove(c.map, old_key)
             replaced == <<c.nodes[old_node].key, c.nodes[old_node].value>>
             n1 == [c.nodes EXCEPT ![old_node].key = k, ![old_node].value = v]
         IN  [cache |-> [c EXCEPT !.map = map1, !.nodes = detach(n1, old_node)],
              replaced |-> Some(replaced),
              node |-> old_node]
    ELSE LET a == BoxNew(c.nodes)
         IN  [cache |-> [c EXCEPT !.nodes = Alloc(c.nodes, a, LRUEntry_new(k, v))],
              replaced |-> None,
              node |-> a]

\* capturing_put that updates a present key where it stands
capturing_put_in_place(c, k, v, capture) ==
    IF k \in DOMAIN c.map
    THEN LET node_ptr == c.map[k]
             old == c.nodes[node_ptr].value
             n1 == [c.nodes EXCEPT ![node_ptr].value = v]
         IN  Ret([c EXCEPT !.nodes = n1], Some(<<k, old>>), None)
    ELSE LET r == replace_or_create_node(c, k, v)
             node_ptr == r.node
             n1 == attach(r.cache.nodes, node_ptr)
             map1 == MapInsert(r.cache.map, n1[node_ptr].key, node_ptr)
         IN  Ret([r.cache EXCEPT !.nodes = n1, !.map = map1],
                 IF capture THEN r.replaced ELSE None,
                 r.replaced)

\* capturing_put that returns the replaced entry whatever `capture` is
capturing_put_always(c, k, v, capture) ==
    IF k \in DOMAIN c.map
    THEN LET node_ptr == c.map[k]
             old == c.nodes[node_ptr].value
             n1 == [c.nodes EXCEPT ![node_ptr].value = v]
             n2 == detach(n1, node_ptr)
             n3 == attach(n2, node_ptr)
         IN  Ret([c EXCEPT !.nodes = n3], Some(<<k, old>>), None)
    ELSE LET r == replace_or_create_node(c, k, v)
             node_ptr == r.node
             n1 == attach(r.cache.nodes, node_ptr)
             map1 == MapInsert(r.cache.map, n1[node_ptr].key, node_ptr)
         IN  Ret([r.cache EXCEPT !.nodes = n1, !.map = map1],
                 r.replaced,
                 r.replaced)

capturing_put(c, k, v, capture) ==
    IF k \in DOMAIN c.map
    THEN LET node_ptr == c.map[k]
             old == c.nodes[node_ptr].value
             n1 == [c.nodes EXCEPT ![node_ptr].value = v]
             n2 == detach(n1, node_ptr)
             n3 == attach(n2, node_ptr)
         IN  Ret([c EXCEPT !.nodes = n3], Some(<<k, old>>), None)
    ELSE LET r == replace_or_create_node(c, k, v)
             node_ptr == r.node
             n1 == attach(r.cache.nodes, node_ptr)
             map1 == MapInsert(r.cache.map, n1[node_ptr].key, node_ptr)
         IN  Ret([r.cache EXCEPT !.nodes = n1, !.map = map1],
                 IF capture THEN r.replaced ELSE None,
                 r.replaced)

\* --------------------------------------------------------------- iteration
RECURSIVE IterNext(_, _, _)
\* Iter::next called until it returns None: the pairs it yields
IterNext(nodes, ptr, n) ==
    IF n = 0
    THEN <<>>
    ELSE <<<<nodes[ptr].key, nodes[ptr].value>>>>
            \o IterNext(nodes, nodes[ptr].next, n - 1)

iter(c) == IterNext(c.nodes, c.nodes[HEAD].next, len(c))

\* ------------------------------------------------- iterators, call by call
\* no iterator has been made
NoIter == [kind |-> "none", len |-> 0, ptr |-> NULL, end |-> NULL]

\* LRUCache::iter
Iter_new(c) ==
    [kind |-> "iter", len |-> len(c),
     ptr |-> c.nodes[HEAD].next, end |-> c.nodes[TAIL].prev]

\* LRUCache::iter_mut
IterMut_new(c) ==
    [kind |-> "iter_mut", len |-> len(c),
     ptr |-> c.nodes[HEAD].next, end |-> c.nodes[TAIL].prev]

\* IntoIterator for LRUCache: the iterator owns the cache
into_iter(c) == [kind |-> "into_iter", len |-> 0, ptr |-> NULL, end |-> NULL]

\* Iter::next that stops at the tail sigil instead of at len == 0
Iter_next_to_sigil(i, nodes) ==
    IF i.ptr = TAIL
    THEN [it |-> i, ret |-> None]
    ELSE [it |-> [i EXCEPT !.len = IF @ = 0 THEN 0 ELSE @ - 1,
                           !.ptr = nodes[i.ptr].next],
          ret |-> Some(<<nodes[i.ptr].key, nodes[i.ptr].value>>)]

\* one call of Iter::next: [it, ret]
Iter_next(i, nodes) ==
    IF i.len = 0
    THEN [it |-> i, ret |-> None]
    ELSE LET key == nodes[i.ptr].key
             val == nodes[i.ptr].value
         IN  [it |-> [i EXCEPT !.len = @ - 1, !.ptr = nodes[i.ptr].next],
              ret |-> Some(<<key, val>>)]

Iter_next_back(i, nodes) ==
    IF i.len = 0
    THEN [it |-> i, ret |-> None]
    ELSE LET key == nodes[i.end].key
             val == nodes[i.end].value
         IN  [it |-> [i EXCEPT !.len = @ - 1, !.end = nodes[i.end].prev],
              ret |-> Some(<<key, val>>)]

\* ref is the node whose value field the &mut V yielded points into
IterMut_next(i, nodes) ==
    IF i.len = 0
    THEN [it |-> i, ret |-> None, ref |-> NULL]
    ELSE LET key == nodes[i.ptr].key
             val == nodes[i.ptr].value
         IN  [it |-> [i EXCEPT !.len = @ - 1, !.ptr = nodes[i.ptr].next],
              ret |-> Some(<<key, val>>), ref |-> i.ptr]

IterMut_next_back(i, nodes) ==
    IF i.len = 0
    THEN [it |-> i, ret |-> None, ref |-> NULL]
    ELSE LET key == nodes[i.end].key
             val == nodes[i.end].value
         IN  [it |-> [i EXCEPT !.len = @ - 1, !.end = nodes[i.end].prev],
              ret |-> Some(<<key, val>>), ref |-> i.end]

RECURSIVE IterMutNth(_, _, _, _)
\* what the p-th call on the iterator i returns, the calls being next() when
\* front is TRUE and next_back() otherwise
IterMutNth(i, nodes, p, front) ==
    LET r == IF front THEN IterMut_next(i, nodes)
                      ELSE IterMut_next_back(i, nodes)
    IN  IF p <= 1 THEN r ELSE IterMutNth(r.it, nodes, p - 1, front)

\* Iter::size_hint, IterMut::size_hint: (len, Some(len))
Iter_size_hint(i) == i.len

\* ------------------------------------------------------------ Cache methods
\* put that returns the value it stored instead of the one it replaced
put_returns_new(c, k, v) ==
    LET r == capturing_put(c, k, v, FALSE)
    IN  Ret(r.cache, IF r.ret = None THEN None ELSE Some(v), r.replaced)

\* put that does not move a present key to the front
put_in_place(c, k, v) ==
    IF k \in DOMAIN c.map
    THEN LET node_ptr == c.map[k]
         IN  Ret([c EXCEPT !.nodes[node_ptr].value = v],
                 Some(c.nodes[node_ptr].value), None)
    ELSE LET r == capturing_put(c, k, v, FALSE)
         IN  Ret(r.cache, None, r.replaced)

put(c, k, v) ==
    LET r == capturing_put(c, k, v, FALSE)
    IN  Ret(r.cache, IF r.ret = None THEN None ELSE Some(r.ret[1][2]), r.replaced)

\* push that passes capture = false
push_not_capturing(c, k, v) == capturing_put(c, k, v, FALSE)

push(c, k, v) == capturing_put(c, k, v, TRUE)

\* get that returns the value and leaves the node where it is
get_in_place(c, k) ==
    IF k \in DOMAIN c.map
    THEN Ret(c, Some(c.nodes[c.map[k]].value), None)
    ELSE Ret(c, None, None)

get(c, k) ==
    IF k \in DOMAIN c.map
    THEN LET node_ptr == c.map[k]
             n1 == detach(c.nodes, node_ptr)
             n2 == attach(n1, node_ptr)
         IN  Ret([c EXCEPT !.nodes = n2], Some(n2[node_ptr].value), None)
    ELSE Ret(c, None, None)

get_mut(c, k) ==
    IF k \in DOMAIN c.map
    THEN LET node_ptr == c.map[k]
             n1 == detach(c.nodes, node_ptr)
             n2 == attach(n1, node_ptr)
         IN  [Ret([c EXCEPT !.nodes = n2], Some(n2[node_ptr].value), None)
                 EXCEPT !.ref = node_ptr]
    ELSE Ret(c, None, None)

\* get_or_insert that calls the factory before it looks the key up
get_or_insert_eager(c, k, f) ==
    LET v == f
    IN  IF k \in DOMAIN c.map
        THEN LET node_ptr == c.map[k]
                 n1 == detach(c.nodes, node_ptr)
                 n2 == attach(n1, node_ptr)
             IN  RetRef([c EXCEPT !.nodes = n2], node_ptr, None, 1)
        ELSE LET r == replace_or_create_node(c, k, v)
                 node_ptr == r.node
                 n1 == attach(r.cache.nodes, node_ptr)
                 map1 == MapInsert(r.cache.map, n1[node_ptr].key, node_ptr)
             IN  RetRef([r.cache EXCEPT !.nodes = n1, !.map = map1],
                        node_ptr, r.replaced, 1)

\* f is the value the factory returns when it is called
get_or_insert(c, k, f) ==
    IF k \in DOMAIN c.map
    THEN LET node_ptr == c.map[k]
             n1 == detach(c.nodes, node_ptr)
             n2 == attach(n1, node_ptr)
         IN  RetRef([c EXCEPT !.nodes = n2], node_ptr, None, 0)
    ELSE LET v == f
             r == replace_or_create_node(c, k, v)
             node_ptr == r.node
             n1 == attach(r.cache.nodes, node_ptr)
             map1 == MapInsert(r.cache.map, n1[node_ptr].key, node_ptr)
         IN  RetRef([r.cache EXCEPT !.nodes = n1, !.map = map1],
                    node_ptr, r.replaced, 1)

\* get_or_insert_mut that returns the value without promoting a present key
get_or_insert_mut_in_place(c, k, f) ==
    IF k \in DOMAIN c.map
    THEN RetRef(c, c.map[k], None, 0)
    ELSE LET v == f
             r == replace_or_create_node(c, k, v)
             node_ptr == r.node
             n1 == attach(r.cache.nodes, node_ptr)
             map1 == MapInsert(r.cache.map, n1[node_ptr].key, node_ptr)
         IN  RetRef([r.cache EXCEPT !.nodes = n1, !.map = map1],
                    node_ptr, r.replaced, 1)

get_or_insert_mut(c, k, f) ==
    IF k \in DOMAIN c.map
    THEN LET node_ptr == c.map[k]
             n1 == detach(c.nodes, node_ptr)
             n2 == attach(n1, node_ptr)
         IN  RetRef([c EXCEPT !.nodes = n2], node_ptr, None, 0)
    ELSE LET v == f
             r == replace_or_create_node(c, k, v)
             node_ptr == r.node
             n1 == attach(r.cache.nodes, node_ptr)
             map1 == MapInsert(r.cache.map, n1[node_ptr].key, node_ptr)
         IN  RetRef([r.cache EXCEPT !.nodes = n1, !.map = map1],
                    node_ptr, r.replaced, 1)

\* peek that promotes the key as get does
peek_promoting(c, k) ==
    IF k \in DOMAIN c.map
    THEN LET node_ptr == c.map[k]
             n1 == detach(c.nodes, node_ptr)
             n2 == attach(n1, node_ptr)
         IN  Ret([c EXCEPT !.nodes = n2], Some(n2[node_ptr].value), None)
    ELSE Ret(c, None, None)

peek(c, k) ==
    IF k \in DOMAIN c.map
    THEN Ret(c, Some(c.nodes[c.map[k]].value), None)
    ELSE Ret(c, None, None)

\* peek_mut that promotes the key as get_mut does
peek_mut_promoting(c, k) ==
    IF k \in DOMAIN c.map
    THEN LET node_ptr == c.map[k]
             n1 == detach(c.nodes, node_ptr)
             n2 == attach(n1, node_ptr)
         IN  [Ret([c EXCEPT !.nodes = n2], Some(n2[node_ptr].value), None)
                 EXCEPT !.ref = node_ptr]
    ELSE Ret(c, None, None)

peek_mut(c, k) ==
    IF k \in DOMAIN c.map
    THEN [Ret(c, Some(c.nodes[c.map[k]].value), None) EXCEPT !.ref = c.map[k]]
    ELSE Ret(c, None, None)

\* peek_last reading the node before tail without asking is_empty
peek_last_unchecked(c) ==
    LET node == c.nodes[TAIL].prev
    IN  Ret(c, Some(<<c.nodes[node].key, c.nodes[node].value>>), None)

peek_last(c) ==
    IF is_empty(c)
    THEN Ret(c, None, None)
    ELSE LET node == c.nodes[TAIL].prev
         IN  Ret(c, Some(<<c.nodes[node].key, c.nodes[node].value>>), None)

contains(c, k) == Ret(c, k \in DOMAIN c.map, None)

\* pop that removes the entry before tail when k is present
pop_at_tail(c, k) ==
    IF k \in DOMAIN c.map
    THEN LET node == c.nodes[TAIL].prev
             map1 == MapRemove(c.map, c.nodes[node].key)
             n1 == Unbox(c.nodes, node)
             n2 == detach(n1, STACK)
         IN  Ret([c EXCEPT !.map = map1, !.nodes = DropLocal(n2)],
                 Some(n2[STACK].value), None)
    ELSE Ret(c, None, None)

pop(c, k) ==
    IF k \in DOMAIN c.map
    THEN LET node == c.map[k]
             map1 == MapRemove(c.map, k)
             n1 == Unbox(c.nodes, node)
             n2 == detach(n1, STACK)
         IN  Ret([c EXCEPT !.map = map1, !.nodes = DropLocal(n2)],
                 Some(n2[STACK].value), None)
    ELSE Ret(c, None, None)

\* pop_entry that returns the pair and removes nothing
pop_entry_peeking(c, k) ==
    IF k \in DOMAIN c.map
    THEN LET node == c.map[k]
         IN  Ret(c, Some(<<c.nodes[node].key, c.nodes[node].value>>), None)
    ELSE Ret(c, None, None)

pop_entry(c, k) ==
    IF k \in DOMAIN c.map
    THEN LET node == c.map[k]
             map1 == MapRemove(c.map, k)
             n1 == Unbox(c.nodes, node)
             n2 == detach(n1, STACK)
         IN  Ret([c EXCEPT !.map = map1, !.nodes = DropLocal(n2)],
                 Some(<<n2[STACK].key, n2[STACK].value>>), None)
    ELSE Ret(c, None, None)

pop_last(c) ==
    LET r == detach_last(c)
    IN  IF r.node = None
        THEN Ret(r.cache, None, None)
        ELSE LET n1 == Unbox(r.cache.nodes, r.node[1])
             IN  Ret([r.cache EXCEPT !.nodes = DropLocal(n1)],
                     Some(<<n1[STACK].key, n1[STACK].value>>), None)

\* promote that moves the node one place towards head
promote_one_step(c, k) ==
    IF k \in DOMAIN c.map /\ c.nodes[c.map[k]].prev # HEAD
    THEN LET node_ptr == c.map[k]
             before == c.nodes[node_ptr].prev
             n1 == detach(c.nodes, node_ptr)
             n2 == [n1 EXCEPT ![node_ptr].next = before,
                              ![node_ptr].prev = n1[before].prev]
             n3 == [n2 EXCEPT ![before].prev = node_ptr]
             n4 == [n3 EXCEPT ![n3[node_ptr].prev].next = node_ptr]
         IN  Ret([c EXCEPT !.nodes = n4], None, None)
    ELSE Ret(c, None, None)

\* promote linking the node before tail
promote_to_tail(c, k) ==
    IF k \in DOMAIN c.map
    THEN LET node_ptr == c.map[k]
             n1 == detach(c.nodes, node_ptr)
         IN  Ret([c EXCEPT !.nodes = attach_at_tail(n1, node_ptr)], None, None)
    ELSE Ret(c, None, None)

promote(c, k) ==
    IF k \in DOMAIN c.map
    THEN LET node_ptr == c.map[k]
             n1 == detach(c.nodes, node_ptr)
         IN  Ret([c EXCEPT !.nodes = attach(n1, node_ptr)], None, None)
    ELSE Ret(c, None, None)

\* demote that moves the node one place towards tail
demote_one_step(c, k) ==
    IF k \in DOMAIN c.map /\ c.nodes[c.map[k]].next # TAIL
    THEN LET node_ptr == c.map[k]
             after == c.nodes[node_ptr].next
             n1 == detach(c.nodes, node_ptr)
             n2 == [n1 EXCEPT ![node_ptr].prev = after,
                              ![node_ptr].next = n1[after].next]
             n3 == [n2 EXCEPT ![after].next = node_ptr]
             n4 == [n3 EXCEPT ![n3[node_ptr].next].prev = node_ptr]
         IN  Ret([c EXCEPT !.nodes = n4], None, None)
    ELSE Ret(c, None, None)

demote(c, k) ==
    IF k \in DOMAIN c.map
    THEN LET node_ptr == c.map[k]
             n1 == detach(c.nodes, node_ptr)
         IN  Ret([c EXCEPT !.nodes = attach_last(n1, node_ptr)], None, None)
    ELSE Ret(c, None, None)

RECURSIVE resize_loop_off_by_one(_, _, _)
\* the loop of resize with >= for >
resize_loop_off_by_one(c, new_cap, steps) ==
    IF len(c) >= new_cap
    THEN resize_loop_off_by_one(pop_last(c).cache, new_cap, steps + 1)
    ELSE [cache |-> c, steps |-> steps]

RECURSIVE resize_loop(_, _, _)
\* while self.map.len() > cap.get() { self.pop_last(); }
\* steps counts the calls of pop_last
resize_loop(c, new_cap, steps) ==
    IF len(c) > new_cap
    THEN resize_loop(pop_last(c).cache, new_cap, steps + 1)
    ELSE [cache |-> c, steps |-> steps]

\* resize that sets the capacity and discards nothing
resize_keep_all(c, new_cap) ==
    Ret([c EXCEPT !.cap = new_cap], None, None)

resize(c, new_cap) ==
    IF new_cap = c.cap
    THEN Ret(c, None, None)
    ELSE Ret([resize_loop(c, new_cap, 0).cache EXCEPT !.cap = new_cap],
             None, None)

\* the loop of clear with if for while
clear_loop_once(c, calls) ==
    [cache |-> pop_last(c).cache, calls |-> calls + 1,
     steps |-> IF pop_last(c).ret # None THEN 1 ELSE 0]

RECURSIVE clear_loop(_, _)
\* while self.pop_last().is_some() {}
\* calls counts the calls of pop_last, the last of which returns None and
\* ends the loop; steps counts the iterations, one per entry popped
clear_loop(c, calls) ==
    LET r == pop_last(c)
    IN  IF r.ret # None
        THEN clear_loop(r.cache, calls + 1)
        ELSE [cache |-> r.cache, calls |-> calls + 1, steps |-> calls]

clear(c) == Ret(clear_loop(c, 0).cache, None, None)

\* IntoIter::next taking the entry after head
IntoIter_next_front(c) ==
    IF is_empty(c)
    THEN Ret(c, None, None)
    ELSE pop_entry(c, c.nodes[c.nodes[HEAD].next].key)

\* IntoIter::next, c being the cache the iterator owns
IntoIter_next(c) == pop_last(c)

\* IntoIter::size_hint
IntoIter_size_hint(c) == len(c)

\* ------------------------------------------------------------ the history
\* the methods that touch their key
TouchOps ==
    {"put", "push", "get", "get_mut", "get_or_insert", "get_or_insert_mut",
     "promote"}

\* the keys of t that are still in the cache c, with k first when the call
\* touched it
Touch(t, op, k, c) ==
    LET t1 == IF op \in TouchOps /\ k \in DOMAIN c.map
              THEN <<k>> \o SelectSeq(t, LAMBDA x : x # k)
              ELSE t
    IN  SelectSeq(t1, LAMBDA x : x \in DOMAIN c.map)

InsertOps ==
    {"put", "push", "get_or_insert", "get_or_insert_mut"}

RemoveOps == {"pop", "pop_entry", "pop_last", "clear", "resize"}

\* the keys handed to the cache and not explicitly removed, after a call
Inserting(h, op, k, c, c1) ==
    [on |-> h.on,
     resized |-> h.resized \/ op = "resize",
     keys |-> IF op \in InsertOps
              THEN h.keys \cup {k}
              ELSE IF op \in RemoveOps
                   THEN h.keys \ (DOMAIN c.map \ DOMAIN c1.map)
                   ELSE h.keys]

\* ------------------------------------------------------------- ownership
\* a number of keys and a number of values
Pair(k, v) == [keys |-> k, values |-> v]

\* what the caller hands over in a call: put and push take a key and a
\* value; get_or_insert(_mut) takes a key, and a value when it calls f
Handed(op, c, k) ==
    IF op \in {"put", "push"}
    THEN Pair(1, 1)
    ELSE IF op \in {"get_or_insert", "get_or_insert_mut"}
         THEN Pair(1, IF k \in DOMAIN c.map THEN 0 ELSE 1)
         ELSE Pair(0, 0)

\* what the code of a call drops, c being the cache before the call and c1
\* the cache after it:
\*   put: the key passed for a key that is present (the closure keeps the
\*     old value only); the pair replaced in a full cache (filter)
\*   get_or_insert(_mut): the key passed for a key that is present (k goes
\*     out of scope); the pair replaced in a full cache (bound to _)
\*   pop: the key (drop_in_place)
\*   resize, clear: every pair that pop_last returns to them
Dropped(op, c, k, c1) ==
    IF op \in {"put", "get_or_insert", "get_or_insert_mut"}
    THEN IF k \in DOMAIN c.map
         THEN Pair(1, 0)
         ELSE IF len(c) = cap(c) THEN Pair(1, 1) ELSE Pair(0, 0)
    ELSE IF op = "pop"
         THEN IF k \in DOMAIN c.map THEN Pair(1, 0) ELSE Pair(0, 0)
         ELSE IF op = "resize" /\ cap(c1) # cap(c)
              THEN LET n == resize_loop(c, cap(c1), 0).steps IN Pair(n, n)
              ELSE IF op = "clear"
                   THEN LET n == clear_loop(c, 0).steps IN Pair(n, n)
                   ELSE Pair(0, 0)

\* what a call gives back to the caller, ret being its return value
Returned(op, ret) ==
    IF op \in {"push", "pop_entry", "pop_last"}
    THEN IF ret = None THEN Pair(0, 0) ELSE Pair(1, 1)
    ELSE IF op \in {"put", "pop"}
         THEN IF ret = None THEN Pair(0, 0) ELSE Pair(0, 1)
         ELSE Pair(0, 0)

\* the keys and values the cache owns after a call
Owning(o, op, k, c, r) ==
    LET h == Handed(op, c, k)
        d == Dropped(op, c, k, r.cache)
        g == Returned(op, r.ret)
    IN  [o EXCEPT !.keys = @ + h.keys - d.keys - g.keys,
                  !.values = @ + h.values - d.values - g.values]

\* drop_in_place on a slot: 1 when the slot holds nothing to drop
drop_in_place(slot) == IF slot = UNINIT THEN 1 ELSE 0

\* Drop that frees every node and drops the keys only
RECURSIVE Drop_drain_keys_only(_, _)
Drop_drain_keys_only(map, d) ==
    IF DOMAIN map = {}
    THEN d
    ELSE LET k == CHOOSE j \in DOMAIN map : TRUE
             n1 == Unbox(d.nodes, map[k])
         IN  Drop_drain_keys_only(MapRemove(map, k),
                 [nodes |-> DropLocal(n1), keys |-> d.keys + 1,
                  values |-> d.values, bad |-> d.bad])

RECURSIVE Drop_drain(_, _)
\* self.map.drain().for_each(..): each node is moved out of its box, and
\* its key and its value are dropped in place; bad counts the nodes that
\* were freed before and the slots that held nothing
Drop_drain(map, d) ==
    IF DOMAIN map = {}
    THEN d
    ELSE LET k == CHOOSE j \in DOMAIN map : TRUE
             node == map[k]
         IN  IF node \notin DOMAIN d.nodes
             THEN Drop_drain(MapRemove(map, k), [d EXCEPT !.bad = @ + 1])
             ELSE LET n1 == Unbox(d.nodes, node)
                  IN  Drop_drain(MapRemove(map, k),
                          [nodes |-> DropLocal(n1),
                           keys |-> d.keys + 1,
                           values |-> d.values + 1,
                           bad |-> d.bad + drop_in_place(n1[STACK].key)
                                         + drop_in_place(n1[STACK].value)])

\* impl Drop for LRUCache: the drain, then the two sigils are moved out of
\* their boxes and go out of scope, which drops no slot of theirs; bad
\* counts a sigil that was freed before as it counts such a node
Drop(c) ==
    LET d == Drop_drain(c.map,
                        [nodes |-> c.nodes, keys |-> 0, values |-> 0,
                         bad |-> 0])
    IN  [cache |-> [c EXCEPT !.map = <<>>,
                             !.nodes = [a \in DOMAIN d.nodes \ {HEAD, TAIL}
                                            |-> d.nodes[a]]],
         keys |-> d.keys, values |-> d.values,
         bad |-> d.bad + Cardinality({HEAD, TAIL} \ DOMAIN d.nodes)]

\* one call of a public method, r being what the method's operator gives;
\* an iterator borrows the cache, or owns it, so none has been made
Call(op, k, r) ==
    /\ it.kind = "none"
    /\ UNCHANGED itervars
    /\ UNCHANGED <<httpvars, twin>>
    /\ cache' = r.cache
    /\ tracking' = tracking
    /\ touched' = IF tracking THEN Touch(touched, op, k, r.cache) ELSE touched
    /\ inserted' = IF inserted.on
                   THEN Inserting(inserted, op, k, cache, r.cache)
                   ELSE inserted
    /\ owned' = IF owned.on THEN Owning(owned, op, k, cache, r) ELSE owned

\* Box::new succeeds: the model does not follow a run into out-of-memory
CanAlloc == HeapAddrs \ DOMAIN cache.nodes # {}

\* ------------------------------------------------------------ the service
\* the handler tasks that run at the same time
NumHandlers == 2

Handlers == 1..NumHandlers

\* a key that holds a control character: no decimal hash does
CtlKey == 0

\* what a multipart body holds: no field, one field with a payload, or
\* bytes that are no multipart body at all
NoField == 0
Malformed == -1

\* a payload beside those of Vals
Colliding == NumVals + 1

\* hasher.finish().to_string(): 64 bits for a payload of any length, so
\* that some payloads share their hash.  The payloads of Vals hash to
\* different keys, Colliding hashes to the key of payload 1, and key 1 is
\* the hash of no payload
Hash(buf) == NumKeys + 1 - (IF buf = Colliding THEN 1 ELSE buf)

\* buf.len(): the payload numbered n is n bytes long
BufLen(buf) == buf

\* disposition_val.parse(): a header value holds no control character
HeaderValue_parse(key) == IF key = CtlKey THEN None ELSE Some(key)

\* what the client receives: status (0: nothing yet, -1: the task panicked
\* and the connection was closed), the Content-Disposition file name, the
\* plain body, and the fields of a StandardApiJsonBody
Response(status, filename, text, code, message, data) ==
    [status |-> status, filename |-> filename, text |-> text,
     code |-> code, message |-> message, data |-> data]

NoResponse == Response(0, -1, "", "", "", <<>>)

Panicked == Response(-1, -1, "", "", "", <<>>)

build_error_response(code, message) ==
    Response(200, -1, "", code, message, <<>>)

StandardApiJsonBody_from(data) ==
    Response(200, -1, "", "00000", "success", data)

\* the selection of the cache in axum_serve
storage(c) == new(c)

Modes == {"item", "default", "capacity", "unlimited", "lru"}

\* a match whose "default" arm builds the unbounded cache
axum_serve_default_unbounded(cache_mode, cache_size) ==
    CASE cache_mode = "item" -> new(cache_size)
      [] cache_mode = "capacity" -> storage(cache_size)
      [] cache_mode \in {"unlimited", "default"} -> unbounded
      [] OTHER -> new(cache_size)

axum_serve(cache_mode, cache_size) ==
    CASE cache_mode \in {"item", "default"} -> new(cache_size)
      [] cache_mode = "capacity" -> storage(cache_size)
      [] cache_mode = "unlimited" -> unbounded
      [] OTHER -> new(cache_size)

\* a lock that grants a guard while another is held
RwLock_write_shared(l) == l = l

\* tools.lru_cache.write(): granted when no guard is held
RwLock_write(l) == l = {}

\* the end of download, from the headers on: res is what get returned
download_return(key, res) ==
    IF HeaderValue_parse(key) = None
    THEN Panicked
    ELSE IF res # None
         THEN Response(200, key, "", "", "", <<res[1]>>)
         ELSE Response(404, -1, "Data not found", "", "", <<>>)

\* the end of upload: body is what the multipart body held
upload_return(body) ==
    IF body = Malformed
    THEN Panicked
    ELSE IF body # NoField
         THEN StandardApiJsonBody_from(<<Hash(body), BufLen(body)>>)
         ELSE build_error_response("10001", "No data uploaded")

\* a request served alone: the cache after it and the response
Serve(c, req) ==
    IF req.kind = "download"
    THEN LET r == get(c, req.key)
         IN  [cache |-> r.cache, resp |-> download_return(req.key, r.ret)]
    ELSE [cache |-> IF req.body \notin {NoField, Malformed}
                    THEN put(c, Hash(req.body), req.body).cache
                    ELSE c,
          resp |-> upload_return(req.body)]

Requests ==
    [kind : {"download"}, key : Keys \cup {CtlKey}, body : {NoField}]
    \cup [kind : {"upload"}, key : {CtlKey},
          body : Vals \cup {NoField, Malformed}]

\* a handler task: where it is, its request, what get returned, and the
\* calls it has made on the cache for this request
Idle ==
    [pc |-> "idle", req |-> [kind |-> "-", key |-> CtlKey, body |-> NoField],
     res |-> None, gets |-> 0, puts |-> 0]

\* the handlers between write().await and the drop of the guard
Holding == {"d_get", "d_ret", "u_field", "u_bytes", "u_put", "u_ret"}

\* ----------------------------------------------------------- state machine
IterInit ==
    /\ it = NoIter
    /\ itret = "-"
    /\ yieldedFront = <<>>
    /\ yieldedBack = <<>>
    /\ snap = <<>>
    /\ inserted = [on |-> FALSE, resized |-> FALSE, keys |-> {}]
    /\ owned = [on |-> FALSE, keys |-> 0, values |-> 0, bad |-> 0]
    /\ twin = NoTwin

\* no service runs: the cache is used by one caller, and there is no
\* configuration, no handler task and no request
NoService ==
    /\ config = <<>>
    /\ lock = {}
    /\ handlers = <<>>
    /\ serial = <<>>
    /\ returned = [on |-> FALSE, bufs |-> {}]

Init ==
    /\ \E c \in Caps : cache = new(c) \/ cache = with_hasher(c)
    /\ tracking = FALSE
    /\ touched = <<>>
    /\ IterInit
    /\ NoService

\* the same caches, with the history of touches kept
InitTracking ==
    /\ \E c \in Caps : cache = new(c) \/ cache = with_hasher(c)
    /\ tracking = TRUE
    /\ touched = <<>>
    /\ IterInit
    /\ NoService

Put(k, v) == CanAlloc /\ Call("put", k, put(cache, k, v))

Push(k, v) == CanAlloc /\ Call("push", k, push(cache, k, v))

Get(k) == Call("get", k, get(cache, k))

GetMut(k) == Call("get_mut", k, get_mut(cache, k))

GetOrInsert(k, f) ==
    CanAlloc /\ Call("get_or_insert", k, get_or_insert(cache, k, f))

GetOrInsertMut(k, f) ==
    CanAlloc /\ Call("get_or_insert_mut", k, get_or_insert_mut(cache, k, f))

Peek(k) == Call("peek", k, peek(cache, k))

PeekMut(k) == Call("peek_mut", k, peek_mut(cache, k))

PeekLast == Call("peek_last", 0, peek_last(cache))

Contains(k) == Call("contains", k, contains(cache, k))

Pop(k) == Call("pop", k, pop(cache, k))

PopEntry(k) == Call("pop_entry", k, pop_entry(cache, k))

PopLast == Call("pop_last", 0, pop_last(cache))

Promote(k) == Call("promote", k, promote(cache, k))

Demote(k) == Call("demote", k, demote(cache, k))

Resize(c) == Call("resize", 0, resize(cache, c))

Clear == Call("clear", 0, clear(cache))

\* making an iterator: i is what iter(), iter_mut() or into_iter() gives
MakeIter(i) ==
    /\ it.kind = "none"
    /\ it' = i
    /\ snap' = iter(cache)
    /\ UNCHANGED <<cache, tracking, touched, inserted, itret, yieldedFront,
                   yieldedBack>>
    /\ UNCHANGED <<httpvars, owned, twin>>

IterStart == MakeIter(Iter_new(cache))

IterMutStart == MakeIter(IterMut_new(cache))

IntoIterStart == MakeIter(into_iter(cache))

\* one call of next(): r is [it, ret]
NextCall(r) ==
    /\ it' = r.it
    /\ itret' = IF r.ret = None THEN "None" ELSE "Some"
    /\ yieldedFront' = IF r.ret = None
                       THEN yieldedFront
                       ELSE Append(yieldedFront, r.ret[1])
    /\ UNCHANGED <<cache, tracking, touched, inserted, yieldedBack, snap>>
    /\ UNCHANGED <<httpvars, owned, twin>>

\* one call of next_back(): r is [it, ret]
NextBackCall(r) ==
    /\ it' = r.it
    /\ itret' = IF r.ret = None THEN "None" ELSE "Some"
    /\ yieldedBack' = IF r.ret = None
                      THEN yieldedBack
                      ELSE Append(yieldedBack, r.ret[1])
    /\ UNCHANGED <<cache, tracking, touched, inserted, yieldedFront, snap>>
    /\ UNCHANGED <<httpvars, owned, twin>>

IterNextCall == it.kind = "iter" /\ NextCall(Iter_next(it, cache.nodes))

IterNextBackCall ==
    it.kind = "iter" /\ NextBackCall(Iter_next_back(it, cache.nodes))

IterMutNextCall ==
    it.kind = "iter_mut" /\ NextCall(IterMut_next(it, cache.nodes))

IterMutNextBackCall ==
    it.kind = "iter_mut" /\ NextBackCall(IterMut_next_back(it, cache.nodes))

IntoIterNextCall ==
    /\ it.kind = "into_iter"
    /\ LET r == IntoIter_next(cache)
       IN  /\ cache' = r.cache
           /\ touched' = IF tracking
                         THEN Touch(touched, "pop_last", 0, r.cache)
                         ELSE touched
           /\ itret' = IF r.ret = None THEN "None" ELSE "Some"
           /\ yieldedFront' = IF r.ret = None
                              THEN yieldedFront
                              ELSE Append(yieldedFront, r.ret[1])
    /\ owned' = IF owned.on
                THEN Owning(owned, "pop_last", 0, cache, IntoIter_next(cache))
                ELSE owned
    /\ UNCHANGED <<tracking, it, yieldedBack, snap, inserted>>
    /\ UNCHANGED <<httpvars, twin>>

\* get_mut(k), peek_mut(k), get_or_insert_mut(k, f) or the p-th call on an
\* iter_mut(), followed by a write of w through the reference returned
Written(r, w) == [r EXCEPT !.cache = write(r.cache, r.ref, w)]

GetMutWrite(k, w) ==
    /\ k \in DOMAIN cache.map
    /\ Call("get_mut", k, Written(get_mut(cache, k), w))

PeekMutWrite(k, w) ==
    /\ k \in DOMAIN cache.map
    /\ Call("peek_mut", k, Written(peek_mut(cache, k), w))

GetOrInsertMutWrite(k, f, w) ==
    /\ CanAlloc
    /\ Call("get_or_insert_mut", k, Written(get_or_insert_mut(cache, k, f), w))

IterMutWrite(p, front, w) ==
    /\ p \in 1..len(cache)
    /\ LET y == IterMutNth(IterMut_new(cache), cache.nodes, p, front)
       IN  Call("iter_mut", 0, Ret(write(cache, y.ref, w), None, None))

\* the calls of every method but demote
NextNoDemote ==
    \/ \E k \in Keys, v \in Vals : Put(k, v)
    \/ \E k \in Keys, v \in Vals : Push(k, v)
    \/ \E k \in Keys : Get(k)
    \/ \E k \in Keys : GetMut(k)
    \/ \E k \in Keys, f \in Vals : GetOrInsert(k, f)
    \/ \E k \in Keys, f \in Vals : GetOrInsertMut(k, f)
    \/ \E k \in Keys : Peek(k)
    \/ \E k \in Keys : PeekMut(k)
    \/ PeekLast
    \/ \E k \in Keys : Contains(k)
    \/ \E k \in Keys : Pop(k)
    \/ \E k \in Keys : PopEntry(k)
    \/ PopLast
    \/ \E k \in Keys : Promote(k)
    \/ \E c \in Caps : Resize(c)
    \/ Clear

Next ==
    \/ NextNoDemote
    \/ \E k \in Keys : Demote(k)

\* every call sequence
Spec == Init /\ [][Next]_vars

\* the same call sequences under a second name: the properties of
\* get_or_insert and of the removals are stated for it, those of put, push,
\* get and peek for Spec
SpecCalls == Init /\ [][Next]_vars

\* the same call sequences under a third name, for the properties of absent
\* keys and of calls made one after the other
SpecLaws == Init /\ [][Next]_vars

\* the same call sequences under a fourth name, for the properties of
\* promote, demote, resize and clear
SpecMoves == Init /\ [][Next]_vars

\* the same call sequences under a fifth name, for the properties of the
\* list and of the index between calls
SpecShape == Init /\ [][Next]_vars

\* a cache built by unbounded() or unbounded_with_hasher(), with the history
\* of the keys handed to it
InitUnbounded ==
    /\ cache = unbounded \/ cache = unbounded_with_hasher
    /\ tracking = FALSE
    /\ touched = <<>>
    /\ it = NoIter
    /\ itret = "-"
    /\ yieldedFront = <<>>
    /\ yieldedBack = <<>>
    /\ snap = <<>>
    /\ inserted = [on |-> TRUE, resized |-> FALSE, keys |-> {}]
    /\ owned = [on |-> FALSE, keys |-> 0, values |-> 0, bad |-> 0]
    /\ twin = NoTwin
    /\ NoService

\* the calls that insert and the calls that remove, on an unbounded cache
NextUnbounded ==
    \/ \E k \in Keys, v \in Vals : Put(k, v)
    \/ \E k \in Keys, v \in Vals : Push(k, v)
    \/ \E k \in Keys, f \in Vals : GetOrInsert(k, f)
    \/ \E k \in Keys, f \in Vals : GetOrInsertMut(k, f)
    \/ \E k \in Keys : Pop(k)
    \/ \E k \in Keys : PopEntry(k)
    \/ PopLast
    \/ \E c \in Caps : Resize(c)
    \/ Clear

SpecUnbounded == InitUnbounded /\ [][NextUnbounded]_vars

\* a cache filled by put, reordered by promote, thinned by pop and resized,
\* which gives every cache the other methods give, with writes through the
\* &mut V that get_mut, peek_mut, get_or_insert_mut and iter_mut return
NextWrite ==
    \/ \E k \in Keys, v \in Vals : Put(k, v)
    \/ \E k \in Keys : Promote(k)
    \/ \E k \in Keys : Pop(k)
    \/ \E c \in Caps : Resize(c)
    \/ \E k \in Keys, w \in Vals : GetMutWrite(k, w)
    \/ \E k \in Keys, w \in Vals : PeekMutWrite(k, w)
    \/ \E k \in Keys, f \in Vals, w \in Vals : GetOrInsertMutWrite(k, f, w)
    \/ \E p \in 1..MaxCap, front \in BOOLEAN, w \in Vals :
          IterMutWrite(p, front, w)

SpecWrite == Init /\ [][NextWrite]_vars

\* every call sequence that contains no demote, with its history of touches
SpecNoDemote == InitTracking /\ [][NextNoDemote]_vars

\* a cache filled by put, reordered by promote and thinned by pop, which
\* gives every sequence of entries at every capacity (the other methods add
\* other node addresses only); then an iterator made and called
NextIter ==
    \/ \E k \in Keys, v \in Vals : Put(k, v)
    \/ \E k \in Keys : Promote(k)
    \/ \E k \in Keys : Pop(k)
    \/ IterStart
    \/ IterMutStart
    \/ IntoIterStart
    \/ IterNextCall
    \/ IterNextBackCall
    \/ IterMutNextCall
    \/ IterMutNextBackCall
    \/ IntoIterNextCall

SpecIter == InitTracking /\ [][NextIter]_vars

\* ---------------------------------------------------------------- teardown
\* a new cache, with the history of what it owns kept
InitDrop ==
    /\ \E c \in Caps : cache = new(c) \/ cache = with_hasher(c)
    /\ tracking = FALSE
    /\ touched = <<>>
    /\ it = NoIter
    /\ itret = "-"
    /\ yieldedFront = <<>>
    /\ yieldedBack = <<>>
    /\ snap = <<>>
    /\ inserted = [on |-> FALSE, resized |-> FALSE, keys |-> {}]
    /\ owned = [on |-> TRUE, keys |-> 0, values |-> 0, bad |-> 0]
    /\ twin = NoTwin
    /\ NoService

\* the cache goes out of scope, or the IntoIter that owns it does, at any
\* point of its iteration: Drop runs, and nothing can be called any more
Teardown ==
    /\ it.kind \in {"none", "into_iter"}
    /\ LET d == Drop(cache)
       IN  /\ cache' = d.cache
           /\ owned' = [owned EXCEPT !.keys = @ - d.keys,
                                     !.values = @ - d.values,
                                     !.bad = @ + d.bad]
    /\ it' = [it EXCEPT !.kind = "dropped"]
    /\ UNCHANGED <<tracking, touched, inserted, itret, yieldedFront,
                   yieldedBack, snap, httpvars, twin>>

\* the calls that hand keys and values to the cache or take them out of
\* it, the owning iterator, and the teardown; what is dropped and what is
\* returned does not depend on what a value holds, so that every value
\* handed in is the same
NextDrop ==
    \/ \E k \in Keys : Put(k, 1)
    \/ \E k \in Keys : Push(k, 1)
    \/ \E k \in Keys : GetOrInsert(k, 1)
    \/ \E k \in Keys : GetOrInsertMut(k, 1)
    \/ \E k \in Keys : Pop(k)
    \/ \E k \in Keys : PopEntry(k)
    \/ PopLast
    \/ \E c \in Caps : Resize(c)
    \/ Clear
    \/ IntoIterStart
    \/ IntoIterNextCall
    \/ Teardown

SpecDrop == InitDrop /\ [][NextDrop]_vars

\* ------------------------------------------------- the service's handlers
\* the variables of a single caller's cache, which the service leaves alone
callervars == <<tracking, touched, inserted, itervars, owned, twin>>

\* the history before any request: nothing served, no response due
NoneServed(c) ==
    [cache |-> c, before |-> c, resp |-> [h \in Handlers |-> NoResponse]]

\* axum_serve has built the cache, and no request has arrived yet
Serving(cfg) ==
    /\ config = cfg
    /\ cache = axum_serve(cfg.cache_mode, cfg.cache_size)
    /\ lock = {}
    /\ handlers = [h \in Handlers |-> Idle]
    /\ serial = NoneServed(cache)
    /\ tracking = FALSE
    /\ touched = <<>>
    /\ IterInit

\* every cache_mode with every cache_size
InitHttp ==
    /\ \E cfg \in [cache_mode : Modes, cache_size : Caps] : Serving(cfg)
    /\ returned = [on |-> FALSE, bufs |-> {}]

\* the configurations that build different caches: the bounded cache of
\* every size and the unbounded cache
InitShared ==
    /\ \E cfg \in [cache_mode : {"item"}, cache_size : Caps]
                  \cup [cache_mode : {"unlimited"}, cache_size : {1}] :
           Serving(cfg)
    /\ returned = [on |-> FALSE, bufs |-> {}]

\* a request reaches handler h, which is about to call write()
Arrive(h, req) ==
    /\ handlers[h].pc = "idle"
    /\ handlers' = [handlers EXCEPT ![h] = [Idle EXCEPT !.pc = req.kind,
                                                         !.req = req]]
    /\ UNCHANGED <<cache, config, lock, serial, returned, callervars>>

\* write().await returns the guard to h; the history serves h's request
Acquire(h) ==
    /\ handlers[h].pc \in {"download", "upload"}
    /\ RwLock_write(lock)
    /\ lock' = lock \cup {h}
    /\ handlers' = [handlers EXCEPT ![h].pc =
                       IF handlers[h].pc = "download" THEN "d_get"
                                                      ELSE "u_field"]
    /\ LET s == Serve(serial.cache, handlers[h].req)
       IN  serial' = [cache |-> s.cache, before |-> cache,
                      resp |-> [serial.resp EXCEPT ![h] = s.resp]]
    /\ UNCHANGED <<cache, config, returned, callervars>>

\* h returns or panics: its guard is dropped, its response leaves the
\* service, and the task ends; the history keeps the payload whose key an
\* upload returns
Release(h) ==
    /\ handlers' = [handlers EXCEPT ![h] = Idle]
    /\ lock' = lock \ {h}
    /\ serial' = [serial EXCEPT !.before = cache, !.resp[h] = NoResponse]
    /\ returned' = IF returned.on /\ handlers[h].pc = "u_ret"
                                  /\ handlers[h].req.body # NoField
                   THEN [returned EXCEPT !.bufs = @ \cup {handlers[h].req.body}]
                   ELSE returned
    /\ UNCHANGED <<cache, config, callervars>>

\* download: lru_cache.get(&key)
DownloadGet(h) ==
    /\ handlers[h].pc = "d_get"
    /\ LET r == get(cache, handlers[h].req.key)
       IN  /\ cache' = r.cache
           /\ handlers' = [handlers EXCEPT ![h].pc = "d_ret",
                                           ![h].res = r.ret,
                                           ![h].gets = @ + 1]
    /\ UNCHANGED <<config, lock, serial, returned, callervars>>

\* download: the headers and the match, which give download_return
DownloadReturn(h) ==
    /\ handlers[h].pc = "d_ret"
    /\ Release(h)

\* upload: multipart.next_field().await.unwrap(), which panics on a body
\* that is no multipart body
UploadField(h) ==
    /\ handlers[h].pc = "u_field"
    /\ LET body == handlers[h].req.body
       IN  IF body = Malformed
           THEN Release(h)
           ELSE /\ handlers' = [handlers EXCEPT ![h].pc =
                                   IF body = NoField THEN "u_ret"
                                                     ELSE "u_bytes"]
                /\ UNCHANGED <<cache, config, lock, serial, returned, callervars>>

\* upload: field.bytes().await.unwrap()
UploadBytes(h) ==
    /\ handlers[h].pc = "u_bytes"
    /\ handlers' = [handlers EXCEPT ![h].pc = "u_put"]
    /\ UNCHANGED <<cache, config, lock, serial, returned, callervars>>

\* an upload that stores the payload under its length
UploadPut_keyed_by_len(h) ==
    /\ handlers[h].pc = "u_put"
    /\ LET buf == handlers[h].req.body
       IN  cache' = put(cache, BufLen(buf), buf).cache
    /\ handlers' = [handlers EXCEPT ![h].pc = "u_ret", ![h].puts = @ + 1]
    /\ UNCHANGED <<config, lock, serial, returned, callervars>>

\* upload: lru_cache.put(key.clone(), buf)
UploadPut(h) ==
    /\ handlers[h].pc = "u_put"
    /\ LET buf == handlers[h].req.body
       IN  cache' = put(cache, Hash(buf), buf).cache
    /\ handlers' = [handlers EXCEPT ![h].pc = "u_ret", ![h].puts = @ + 1]
    /\ UNCHANGED <<config, lock, serial, returned, callervars>>

\* upload: the response, which is upload_return
UploadReturn(h) ==
    /\ handlers[h].pc = "u_ret"
    /\ Release(h)

\* the response of a handler that is about to end
Responds(hd) ==
    IF hd.req.kind = "download"
    THEN download_return(hd.req.key, hd.res)
    ELSE upload_return(hd.req.body)

\* the steps of handler h
Handler(h) ==
    \/ \E req \in Requests : Arrive(h, req)
    \/ Acquire(h)
    \/ DownloadGet(h)
    \/ DownloadReturn(h)
    \/ UploadField(h)
    \/ UploadBytes(h)
    \/ UploadPut(h)
    \/ UploadReturn(h)

NextHttp == \E h \in Handlers : Handler(h)

\* one request at a time
NextServe == Handler(1)

\* the service: handlers running at the same time on one cache
SpecHttp == InitShared /\ [][NextHttp]_vars

\* the service under every configuration, serving one request at a time
SpecServe == InitHttp /\ [][NextServe]_vars

\* ------------------------------------------------- what a caller observes
\* contains(k)
Present(c, k) == contains(c, k).ret

\* the entries of the cache, as contains and peek show them
EntrySet(c) == {<<k, peek(c, k).ret[1]>> : k \in {j \in Keys : Present(c, j)}}

\* the keys iter() yields, in the order it yields them
KeyOrder(c) == [i \in 1..Len(iter(c)) |-> iter(c)[i][1]]

\* what iter() yields once the entry of k is left out
Others(c, k) == SelectSeq(iter(c), LAMBDA e : e[1] # k)

Full(c) == len(c) = cap(c)

\* the four methods that insert an absent key
Inserted(c, k, v) ==
    <<put(c, k, v), push(c, k, v), get_or_insert(c, k, v),
      get_or_insert_mut(c, k, v)>>

\* ---------------------------------------------------------------------- C1
\* C1: in every state between two calls, len() <= cap().get().
C1_SizeBound == len(cache) <= cap(cache)

\* a cache of the largest capacity that has been filled
C1_Witness == len(cache) = cap(cache) /\ cap(cache) = MaxCap

\* ---------------------------------------------------------------------- C2
\* C2: when the cache is full and put, push, get_or_insert or
\* get_or_insert_mut is called with an absent key, exactly one entry is
\* removed, it is the entry peek_last() showed before the call, and every
\* other entry is still there with its value.
C2_EvictsLast ==
    \A k \in Keys, v \in Vals :
        (Full(cache) /\ ~Present(cache, k)) =>
            \A i \in 1..4 :
                LET r == Inserted(cache, k, v)[i]
                    victim == peek_last(cache).ret[1]
                IN  /\ victim \in EntrySet(cache)
                    /\ EntrySet(r.cache) =
                           (EntrySet(cache) \ {victim}) \cup {<<k, v>>}
                    /\ len(r.cache) = len(cache)

\* a full cache of two entries and a key that is not in it: the call evicts
\* one entry and leaves the other
C2_Witness ==
    /\ Full(cache)
    /\ len(cache) = 2
    /\ \E k \in Keys :
          /\ ~Present(cache, k)
          /\ \A i \in 1..4 :
                Inserted(cache, k, 1)[i].replaced = peek_last(cache).ret

\* ---------------------------------------------------------------------- C3
\* C3: if put(k, v) returns Some(old), the cache held (k, old) just before
\* the call; if it returns None, k was absent just before the call.
C3_PutReturn ==
    \A k \in Keys, v \in Vals :
        LET r == put(cache, k, v)
        IN  /\ r.ret # None =>
                (Present(cache, k) /\ <<k, r.ret[1]>> \in EntrySet(cache))
            /\ r.ret = None => ~Present(cache, k)

\* a full cache where put returns None for one key (and evicts) and
\* Some(old) for another
C3_Witness ==
    /\ Full(cache)
    /\ \E k \in Keys :
          /\ ~Present(cache, k)
          /\ put(cache, k, 1).ret = None
          /\ put(cache, k, 1).replaced # None
    /\ \E k \in Keys : Present(cache, k) /\ put(cache, k, 1).ret # None

\* ---------------------------------------------------------------------- C4
\* C4: put(k, v) on a present key stores v for k, makes k the first pair of
\* iter(), returns the previous value of k, leaves len() unchanged and
\* removes no entry, whether or not the cache is full.
C4_PutUpdate ==
    \A k \in Keys, v \in Vals :
        Present(cache, k) =>
            LET r == put(cache, k, v)
                old == peek(cache, k).ret
            IN  /\ peek(r.cache, k).ret = Some(v)
                /\ iter(r.cache)[1] = <<k, v>>
                /\ r.ret = old
                /\ len(r.cache) = len(cache)
                /\ EntrySet(r.cache) =
                       (EntrySet(cache) \ {<<k, old[1]>>}) \cup {<<k, v>>}

\* a full cache of three entries whose last entry holds value 1: put of
\* value 2 on its key updates it and moves it to the front
C4_Witness ==
    /\ Full(cache)
    /\ len(cache) = 3
    /\ peek_last(cache).ret[1][2] = 1
    /\ put(cache, peek_last(cache).ret[1][1], 2).ret = Some(1)

\* ---------------------------------------------------------------------- C5
\* C5: after get(k) or get_mut(k) returns Some, k is the first pair of
\* iter(), the other entries keep their relative order, and peek_last()
\* shows a key other than k unless the cache holds exactly one entry.
C5_GetPromotes ==
    \A k \in Keys :
        \A r \in {get(cache, k), get_mut(cache, k)} :
            r.ret # None =>
                /\ iter(r.cache)[1] = <<k, r.ret[1]>>
                /\ Others(r.cache, k) = Others(cache, k)
                /\ len(r.cache) # 1 => peek_last(r.cache).ret[1][1] # k

\* three entries, and get of the last one returns Some
C5_Witness ==
    /\ len(cache) = 3
    /\ get(cache, peek_last(cache).ret[1][1]).ret # None

\* ---------------------------------------------------------------------- C6
\* C6: peek(k), peek_mut(k) (with no write through the reference),
\* contains(k) and peek_last() leave the cache as it was: the same nodes in
\* the same order, the same index, the same cap.  A call sequence with such
\* calls inserted therefore passes through the same cache values as the
\* sequence alone, and every call of it returns the same result.
C6_PeekNoInterference ==
    \A k \in Keys :
        /\ peek(cache, k).cache = cache
        /\ peek_mut(cache, k).cache = cache
        /\ contains(cache, k).cache = cache
        /\ peek_last(cache).cache = cache

\* a peek that finds a key which is not the most recently used one
C6_Witness ==
    /\ len(cache) = 3
    /\ \E k \in Keys : peek(cache, k).ret # None /\ iter(cache)[1][1] # k

\* ---------------------------------------------------------------------- C7
\* C7: in every state of a call sequence that contains no demote, iter()
\* yields the keys in the order of their last touch, the most recently
\* touched first: the node after head holds the most recently touched key
\* and the node before tail the least recently touched one.
C7_RecencyOrder ==
    tracking =>
        /\ KeyOrder(cache) = touched
        /\ ~is_empty(cache) =>
              /\ cache.nodes[cache.nodes[HEAD].next].key = touched[1]
              /\ cache.nodes[cache.nodes[TAIL].prev].key = touched[Len(touched)]
              /\ peek_last(cache).ret[1][1] = touched[Len(touched)]

\* three entries whose last touches were not in the order of their keys
C7_Witness ==
    /\ tracking
    /\ touched = <<2, 3, 1>>

\* ---------------------------------------------------------------------- C8
\* C8: push(k, v) returns Some((k, old value)) when k was present, Some(the
\* least recently used pair) when k was absent and the cache full, and None
\* when k was absent and the cache not full.
C8_PushReturn ==
    \A k \in Keys, v \in Vals :
        LET r == push(cache, k, v)
        IN  /\ Present(cache, k) => r.ret = Some(<<k, peek(cache, k).ret[1]>>)
            /\ (~Present(cache, k) /\ Full(cache)) =>
                  r.ret = Some(peek_last(cache).ret[1])
            /\ (~Present(cache, k) /\ ~Full(cache)) => r.ret = None

\* a full cache of two entries where push of an absent key returns a pair
C8_Witness ==
    /\ Full(cache)
    /\ len(cache) = 2
    /\ \E k \in Keys : ~Present(cache, k) /\ push(cache, k, 1).ret # None

\* ---------------------------------------------------------------------- C9
\* C9: the cache after push(k, v) is the cache after put(k, v).
C9_PushIsPut ==
    \A k \in Keys, v \in Vals : push(cache, k, v).cache = put(cache, k, v).cache

\* a full cache and an absent key: both calls evict, push returns the
\* evicted pair and put returns None
C9_Witness ==
    /\ Full(cache)
    /\ \E k \in Keys :
          /\ ~Present(cache, k)
          /\ push(cache, k, 1).ret # None
          /\ put(cache, k, 1).ret = None
          /\ put(cache, k, 1).cache # cache

\* --------------------------------------------------------------------- C10
\* C10 as the claim states it: put of an absent key into a full cache
\* returns the value of the entry it evicts.
C10_PutReturnsEvicted ==
    \A k \in Keys, v \in Vals :
        (Full(cache) /\ ~Present(cache, k)) =>
            put(cache, k, v).ret = Some(peek_last(cache).ret[1][2])

\* C10 as amended: put of an absent key into a full cache recycles the node
\* of the least recently used entry for (k, v) and returns None; the evicted
\* key and value are not returned.
C10_PutEvictReturnsNone ==
    \A k \in Keys, v \in Vals :
        (Full(cache) /\ ~Present(cache, k)) =>
            LET r == put(cache, k, v)
                victim == peek_last(cache).ret[1]
            IN  /\ r.ret = None
                /\ r.replaced = Some(victim)
                /\ ~Present(r.cache, victim[1])
                /\ iter(r.cache)[1] = <<k, v>>
                /\ r.cache.map[k] = cache.nodes[TAIL].prev

\* a full cache of two entries and an absent key
C10_Witness ==
    /\ Full(cache)
    /\ len(cache) = 2
    /\ \E k \in Keys : ~Present(cache, k) /\ put(cache, k, 2).replaced # None

\* --------------------------------------------------------------------- C11
\* C11: get_or_insert and get_or_insert_mut call the factory once when k is
\* absent and not at all when k is present; the reference returned is to
\* the value stored for k after the call: the value k already had on a hit,
\* the factory's result on a miss.
C11_FactoryOnce ==
    \A k \in Keys, f \in Vals :
        \A r \in {get_or_insert(cache, k, f), get_or_insert_mut(cache, k, f)} :
            /\ r.calls = (IF Present(cache, k) THEN 0 ELSE 1)
            /\ Present(r.cache, k)
            /\ r.ref = r.cache.map[k]
            /\ peek(r.cache, k).ret = Some(r.ret)
            /\ r.ret = (IF Present(cache, k)
                        THEN peek(cache, k).ret[1]
                        ELSE f)

\* a cache holding a key with value 1 and lacking another key: with a
\* factory that gives 2 the first call returns 1 and the second returns 2
C11_Witness ==
    /\ \E k \in Keys :
          /\ peek(cache, k).ret = Some(1)
          /\ get_or_insert(cache, k, 2).ret = 1
          /\ get_or_insert(cache, k, 2).calls = 0
    /\ \E k \in Keys :
          /\ ~Present(cache, k)
          /\ get_or_insert_mut(cache, k, 2).ret = 2
          /\ get_or_insert_mut(cache, k, 2).calls = 1

\* --------------------------------------------------------------------- C12
\* C12: on a miss get_or_insert(k, f) and get_or_insert_mut(k, f) leave the
\* cache put(k, f()) leaves, and what they return is the new value, not the
\* evicted entry; on a hit they leave the cache get(k) leaves, the value of
\* k being what it was.
C12_GetOrInsertIsPutOrGet ==
    \A k \in Keys, f \in Vals :
        \A r \in {get_or_insert(cache, k, f), get_or_insert_mut(cache, k, f)} :
            IF Present(cache, k)
            THEN /\ r.cache = get(cache, k).cache
                 /\ peek(r.cache, k).ret = peek(cache, k).ret
            ELSE /\ r.cache = put(cache, k, f).cache
                 /\ iter(r.cache)[1] = <<k, f>>
                 /\ r.ret = f
                 /\ Full(cache) =>
                       /\ r.replaced = peek_last(cache).ret
                       /\ ~Present(r.cache, peek_last(cache).ret[1][1])

\* a full cache of two entries: one key is absent (a miss that evicts) and
\* the last key is present (a hit that promotes)
C12_Witness ==
    /\ Full(cache)
    /\ len(cache) = 2
    /\ \E k \in Keys :
          /\ ~Present(cache, k)
          /\ get_or_insert(cache, k, 2).replaced # None
    /\ get_or_insert_mut(cache, peek_last(cache).ret[1][1], 2).cache # cache

\* --------------------------------------------------------------------- C13
Reverse(s) == [i \in 1..Len(s) |-> s[Len(s) + 1 - i]]

\* the position of key k in iter(c), 0 when k is absent
Position(c, k) ==
    IF Present(c, k)
    THEN CHOOSE i \in 1..len(c) : iter(c)[i][1] = k
    ELSE 0

\* C13: pop(k) and pop_entry(k) on a present key return k's value (pop) or
\* k and its value (pop_entry) and remove that entry alone: len() goes down
\* by one, contains(k) is false, and iter() is the sequence it was with k's
\* entry deleted, whether k was first, in the middle or last.
C13_PopRemovesExactly ==
    \A k \in Keys :
        Present(cache, k) =>
            LET v == peek(cache, k).ret[1]
                p == pop(cache, k)
                e == pop_entry(cache, k)
            IN  /\ p.ret = Some(v)
                /\ e.ret = Some(<<k, v>>)
                /\ \A r \in {p.cache, e.cache} :
                      /\ len(r) = len(cache) - 1
                      /\ ~Present(r, k)
                      /\ iter(r) = Others(cache, k)
                      /\ cap(r) = cap(cache)

\* three entries, so that the first, the middle and the last can be popped
C13_Witness ==
    /\ len(cache) = 3
    /\ \A i \in 1..3 :
          LET k == iter(cache)[i][1]
          IN  /\ Position(cache, k) = i
              /\ pop(cache, k).ret # None
              /\ Len(iter(pop_entry(cache, k).cache)) = 2

\* --------------------------------------------------------------------- C14
RECURSIVE Drain(_)
\* what pop_last() returns, call after call, until it returns None
Drain(c) ==
    LET r == pop_last(c)
    IN  IF r.ret = None THEN <<>> ELSE <<r.ret[1]>> \o Drain(r.cache)

\* C14: pop_last() on a non-empty cache returns the pair peek_last() shows,
\* len() goes down by one and the other entries keep their order; called
\* again and again it returns the entries in the reverse of iter() order,
\* and None once the cache is empty (and on an empty cache from the start).
C14_PopLast ==
    LET r == pop_last(cache)
        n == len(cache)
    IN  /\ n = 0 => r.ret = None /\ r.cache = cache
        /\ n > 0 =>
              /\ r.ret = peek_last(cache).ret
              /\ r.ret = Some(iter(cache)[n])
              /\ len(r.cache) = n - 1
              /\ iter(r.cache) = SubSeq(iter(cache), 1, n - 1)
        /\ Drain(cache) = Reverse(iter(cache))
        /\ pop_last(clear(cache).cache).ret = None

\* three entries with three keys: the order of the returns is visible
C14_Witness ==
    /\ len(cache) = 3
    /\ Drain(cache)[1] = iter(cache)[3]
    /\ Drain(cache)[3] = iter(cache)[1]
    /\ pop_last(cache).ret = Some(<<2, 1>>)

\* --------------------------------------------------------------------- C15
\* C15: promote(k) leaves the cache get(k) leaves: a present k becomes the
\* first entry of iter() and the other entries keep their order and values;
\* an absent k changes nothing.
C15_PromoteIsGet ==
    \A k \in Keys :
        LET r == promote(cache, k)
        IN  /\ r.cache = get(cache, k).cache
            /\ Present(cache, k) =>
                  /\ iter(r.cache)[1] = <<k, peek(cache, k).ret[1]>>
                  /\ Others(r.cache, k) = Others(cache, k)
            /\ ~Present(cache, k) => r.cache = cache

\* the last of three entries is promoted
C15_Witness ==
    /\ len(cache) = 3
    /\ LET k == iter(cache)[3][1]
       IN  /\ Position(promote(cache, k).cache, k) = 1
           /\ promote(cache, k).cache # cache

\* --------------------------------------------------------------------- C16
\* C16: demote(k) on a present key makes k's entry the one peek_last() and
\* pop_last() return next and the one the next insertion into a full cache
\* evicts; len() and every value stay as they were and the other entries
\* keep their order; demoting the entry that is already last changes
\* nothing.
C16_Demote ==
    \A k \in Keys :
        Present(cache, k) =>
            LET r == demote(cache, k).cache
                e == <<k, peek(cache, k).ret[1]>>
            IN  /\ peek_last(r).ret = Some(e)
                /\ pop_last(r).ret = Some(e)
                /\ \A j \in Keys, v \in Vals :
                      Full(r) /\ ~Present(r, j) =>
                          /\ push(r, j, v).ret = Some(e)
                          /\ ~Present(put(r, j, v).cache, k)
                /\ len(r) = len(cache)
                /\ EntrySet(r) = EntrySet(cache)
                /\ Others(r, k) = Others(cache, k)
                /\ Position(cache, k) = len(cache) => r = cache

\* a full cache of two entries and a key it lacks: demoting the first entry
\* makes it the victim of the next insertion
C16_Witness ==
    /\ Full(cache)
    /\ len(cache) = 2
    /\ LET k == iter(cache)[1][1]
           r == demote(cache, k).cache
       IN  /\ r # cache
           /\ \E j \in Keys : ~Present(r, j) /\ push(r, j, 1).ret[1][1] = k

\* --------------------------------------------------------------------- C17
Min(a, b) == IF a < b THEN a ELSE b

\* C17: after resize(c) on a cache of n entries cap() is c and the cache
\* holds the Min(n, c) most recently used entries it held, with their
\* values and in their order; an entry is discarded only if at least c
\* entries were more recently used than it; with c >= n, c = cap() included,
\* nothing is discarded.
C17_Resize ==
    \A c \in Caps :
        LET r == resize(cache, c).cache
            n == len(cache)
        IN  /\ cap(r) = c
            /\ len(r) = Min(n, c)
            /\ iter(r) = SubSeq(iter(cache), 1, Min(n, c))
            /\ \A i \in 1..n :
                  ~Present(r, iter(cache)[i][1]) => i - 1 >= c
            /\ c >= n => r = [cache EXCEPT !.cap = c]

\* three entries resized to one, to two and to three
C17_Witness ==
    /\ len(cache) = 3
    /\ iter(resize(cache, 1).cache) = <<iter(cache)[1]>>
    /\ Len(iter(resize(cache, 2).cache)) = 2
    /\ resize(cache, 3).cache = cache

\* --------------------------------------------------------------------- C18
\* C18: clear() on a cache of n entries ends after n iterations of its
\* loop, each popping the last entry (the call of pop_last that follows
\* them returns None and ends the loop), and leaves len() = 0, is_empty(),
\* peek_last() = None, head.next = tail and cap() as it was; resize from n
\* entries down to c < n entries ends after n - c calls of pop_last.
C18_ClearTerminates ==
    LET n == len(cache)
        l == clear_loop(cache, 0)
        r == clear(cache).cache
    IN  /\ l.steps = n
        /\ l.calls = n + 1
        /\ r = l.cache
        /\ len(r) = 0
        /\ is_empty(r)
        /\ peek_last(r).ret = None
        /\ r.nodes[HEAD].next = TAIL
        /\ r.nodes[TAIL].prev = HEAD
        /\ cap(r) = cap(cache)
        /\ \A c \in Caps :
              c < n => /\ resize_loop(cache, c, 0).steps = n - c
                       /\ resize(cache, c).cache =
                             [resize_loop(cache, c, 0).cache EXCEPT !.cap = c]

\* three entries: clear pops three times, resize to one pops twice
C18_Witness ==
    /\ len(cache) = 3
    /\ clear_loop(cache, 0).steps = 3
    /\ resize_loop(cache, 1, 0).steps = 2
    /\ clear(cache).cache # cache

\* --------------------------------------------------------------------- C19
\* the entries of the cache, most recently touched first
ByRecency(c, t) == [i \in 1..Len(t) |-> <<t[i], peek(c, t[i]).ret[1]>>]

Borrowing == it.kind \in {"iter", "iter_mut"}

\* C19: iter() and iter_mut() start with remaining length len(); next()
\* yields the entries from the most to the least recently used and
\* next_back() from the least to the most recently used; in every
\* interleaving of the two each successful call takes one off the remaining
\* length, no entry is yielded twice, a call returns None only when all
\* len() entries have been yielded, and from then on every call does.
C19_IterBothEnds ==
    Borrowing =>
        LET n == len(cache)
            e == ByRecency(cache, touched)
            f == Len(yieldedFront)
            b == Len(yieldedBack)
        IN  /\ f + b <= n
            /\ Iter_size_hint(it) = n - (f + b)
            /\ yieldedFront = SubSeq(e, 1, f)
            /\ yieldedBack = SubSeq(Reverse(e), 1, b)
            /\ itret = "-" => f + b = 0
            /\ itret = "None" => /\ f + b = n
                                 /\ yieldedFront \o Reverse(yieldedBack) = e

\* an iterator over three entries that has yielded the first entry from the
\* front, then the last from the back, then the middle one, and has then
\* been called once more
C19_Witness ==
    /\ Borrowing
    /\ len(cache) = 3
    /\ Len(yieldedFront) = 2
    /\ Len(yieldedBack) = 1
    /\ yieldedFront[1][1] # yieldedFront[2][1]
    /\ itret = "None"
    /\ Iter_size_hint(it) = 0

\* --------------------------------------------------------------------- C20
\* C20: into_iter() on a cache of n entries yields n owned pairs, the least
\* recently used first: the reverse of what iter() yields on that cache;
\* the remaining length is the number of entries not yet yielded, and after
\* the n-th pair every call returns None.
C20_IntoIter ==
    it.kind = "into_iter" =>
        LET n == Len(snap)
            y == Len(yieldedFront)
        IN  /\ y <= n
            /\ yieldedFront = SubSeq(Reverse(snap), 1, y)
            /\ IntoIter_size_hint(cache) = n - y
            /\ iter(cache) = SubSeq(snap, 1, n - y)
            /\ itret = "-" => y = 0
            /\ itret = "None" => y = n /\ yieldedFront = Reverse(snap)

\* the owning iterator of a cache of three entries, drained and called once
\* more
C20_Witness ==
    /\ it.kind = "into_iter"
    /\ Len(snap) = 3
    /\ Len(yieldedFront) = 3
    /\ yieldedFront[1] = snap[3]
    /\ itret = "None"

\* --------------------------------------------------------------------- C22
\* C22: get, get_mut, peek, peek_mut, pop and pop_entry of an absent key
\* return None, promote and demote of an absent key return nothing, and
\* peek_last and pop_last on an empty cache return None; each leaves the
\* cache as it was: entries, values, order, len() and cap().
C22_NoneOnMiss ==
    /\ \A k \in Keys :
          ~Present(cache, k) =>
              /\ \A r \in {get(cache, k), get_mut(cache, k), peek(cache, k),
                           peek_mut(cache, k), pop(cache, k),
                           pop_entry(cache, k), promote(cache, k),
                           demote(cache, k)} :
                    /\ r.ret = None
                    /\ r.cache = cache
                    /\ iter(r.cache) = iter(cache)
                    /\ len(r.cache) = len(cache)
                    /\ cap(r.cache) = cap(cache)
    /\ is_empty(cache) =>
          \A r \in {peek_last(cache), pop_last(cache)} :
              r.ret = None /\ r.cache = cache

\* a cache of two entries and a key it lacks
C22_Witness ==
    /\ len(cache) = 2
    /\ \E k \in Keys :
          /\ ~Present(cache, k)
          /\ pop(cache, k).ret = None
          /\ demote(cache, k).cache = cache

\* --------------------------------------------------------------------- C24
\* C24 as stated: push(k, v) followed by pop_entry(k) returns Some((k, v))
\* and leaves len() what it was before the push, for every state, k and v.
C24_PushPopRestoresLen ==
    \A k \in Keys, v \in Vals :
        \A r \in {pop_entry(push(cache, k, v).cache, k)} :
            /\ r.ret = Some(<<k, v>>)
            /\ len(r.cache) = len(cache)

\* C24 amended: push(k, v) followed by pop_entry(k) returns Some((k, v));
\* len() is what it was before the push when k was absent and the cache was
\* not full, and one less when k was present or the cache was full.
C24_PushPopEntry ==
    \A k \in Keys, v \in Vals :
        \A r \in {pop_entry(push(cache, k, v).cache, k)} :
            /\ r.ret = Some(<<k, v>>)
            /\ ~Present(r.cache, k)
            /\ len(r.cache) = (IF Present(cache, k) \/ Full(cache)
                               THEN len(cache) - 1
                               ELSE len(cache))

\* a full cache of two entries holding one key and lacking another: the two
\* cases in which len() ends one lower
C24_Witness ==
    /\ Full(cache)
    /\ len(cache) = 2
    /\ \E k \in Keys :
          /\ Present(cache, k)
          /\ len(pop_entry(push(cache, k, 1).cache, k).cache) = 1
    /\ \E k \in Keys :
          /\ ~Present(cache, k)
          /\ pop_entry(push(cache, k, 1).cache, k).ret = Some(<<k, 1>>)
          /\ len(pop_entry(push(cache, k, 1).cache, k).cache) = 1

\* --------------------------------------------------------------------- C25
\* C25 as stated: for a present key k, demote(k) followed by promote(k) leaves
\* the recency order as it was before the demote.
C25_DemotePromoteRestores ==
    \A k \in Keys :
        Present(cache, k) =>
            iter(promote(demote(cache, k).cache, k).cache) = iter(cache)

\* C25 amended: for a present key k, demote(k) makes k the last entry and
\* the promote(k) that follows makes it the first, the other entries keeping
\* their order: the cache is the one promote(k) alone leaves, and the order
\* is the one before the demote exactly when k was the first entry.
C25_DemotePromoteIsPromote ==
    \A k \in Keys :
        Present(cache, k) =>
            \A d \in {demote(cache, k).cache} :
                \A p \in {promote(d, k).cache} :
                    /\ iter(d)[len(d)][1] = k
                    /\ iter(p)[1][1] = k
                    /\ p = promote(cache, k).cache
                    /\ Others(p, k) = Others(cache, k)
                    /\ EntrySet(p) = EntrySet(cache)
                    /\ (iter(p) = iter(cache)) <=> (iter(cache)[1][1] = k)

\* three entries: demote then promote of the middle one leaves it first
C25_Witness ==
    /\ len(cache) = 3
    /\ LET k == iter(cache)[2][1]
           p == promote(demote(cache, k).cache, k).cache
       IN  /\ iter(p)[1][1] = k
           /\ iter(p) # iter(cache)
           /\ iter(p)[2] = iter(cache)[1]

\* --------------------------------------------------------------------- C26
\* C26: promote(k) twice leaves the cache promote(k) once leaves, for every
\* key, present or absent.
C26_PromoteIdempotent ==
    \A k \in Keys :
        \A p \in {promote(cache, k).cache} :
            promote(p, k).cache = p

\* the last of three entries is promoted, and promoted again
C26_Witness ==
    /\ len(cache) = 3
    /\ LET k == iter(cache)[3][1]
           p == promote(cache, k).cache
       IN  /\ p # cache
           /\ iter(p)[1][1] = k
           /\ promote(p, k).cache = p

\* --------------------------------------------------------------------- C27
\* C27 as stated: in a cache built unbounded every key handed to it by put,
\* push or get_or_insert and not explicitly removed (pop, pop_entry,
\* pop_last, clear, resize) is present, put and push of a new key return
\* None, and len() is the number of those keys.
C27_UnboundedNeverEvicts ==
    inserted.on =>
        /\ inserted.keys \subseteq DOMAIN cache.map
        /\ len(cache) = Cardinality(inserted.keys)
        /\ \A k \in Keys, v \in Vals :
              ~Present(cache, k) =>
                  put(cache, k, v).ret = None /\ push(cache, k, v).ret = None

\* C27 amended: the same, for as long as resize has not been called: cap()
\* is usize::MAX, every key handed in and not explicitly removed is present,
\* put, push and get_or_insert of a new key evict nothing and put and push
\* return None, and len() is the number of those keys. resize(c) makes the
\* cache a bounded one.
C27_UnboundedUntilResized ==
    inserted.on =>
        /\ ~inserted.resized =>
              /\ cap(cache) = USIZE_MAX
              /\ DOMAIN cache.map = inserted.keys
              /\ len(cache) = Cardinality(inserted.keys)
              /\ \A k \in Keys, v \in Vals :
                    ~Present(cache, k) =>
                        /\ put(cache, k, v).ret = None
                        /\ push(cache, k, v).ret = None
                        /\ \A r \in {put(cache, k, v), push(cache, k, v)} :
                              /\ r.replaced = None
                              /\ len(r.cache) = len(cache) + 1
                        /\ \A r \in {get_or_insert(cache, k, v),
                                     get_or_insert_mut(cache, k, v)} :
                              /\ r.replaced = None
                              /\ len(r.cache) = len(cache) + 1
        /\ inserted.resized => cap(cache) \in Caps

\* an unbounded cache, never resized, that holds every key there is, one of
\* them put back after a pop
C27_Witness ==
    /\ inserted.on
    /\ ~inserted.resized
    /\ cap(cache) = USIZE_MAX
    /\ len(cache) = NumKeys
    /\ inserted.keys = Keys
    /\ cache.nodes[HEAD].next # STACK + NumKeys

\* --------------------------------------------------------------------- C23
\* after the write of w into k's value in a cache whose iter() was s1, giving
\* c2: get, peek and iter show w for k, and iter shows every other entry as
\* it was, in the order it was
ShowsWrite(c2, k, w, s1) ==
    /\ get(c2, k).ret = Some(w)
    /\ peek(c2, k).ret = Some(w)
    /\ iter(c2) = [i \in 1..Len(s1) |->
                      IF s1[i][1] = k THEN <<k, w>> ELSE s1[i]]

\* k's value in c1 is the one it has in cache, if k is in both
Kept(k, c1) ==
    (k \in DOMAIN cache.map /\ k \in DOMAIN c1.map) =>
        c1.nodes[c1.map[k]].value = cache.nodes[cache.map[k]].value

\* C23: a value written through the reference that get_mut(k), peek_mut(k),
\* get_or_insert_mut(k, f) or iter_mut() returns is the value get, peek and
\* iter show for k afterwards, and the write changes no other value and no
\* position; peek_mut and iter_mut leave the order what it was before the
\* call. A value stays what it is through every call that is not a put or
\* push of its key, as long as its key stays in the cache.
C23_WriteThrough ==
    /\ \A k \in DOMAIN cache.map :
          /\ \A r \in {get_mut(cache, k)} :
                \A s1 \in {iter(r.cache)} :
                    \A w \in Vals :
                        ShowsWrite(write(r.cache, r.ref, w), k, w, s1)
          /\ \A r \in {peek_mut(cache, k)} :
                /\ r.cache = cache
                /\ \A s1 \in {iter(cache)} :
                      \A w \in Vals :
                          ShowsWrite(write(r.cache, r.ref, w), k, w, s1)
    /\ \A k \in Keys, f \in Vals :
          \A r \in {get_or_insert_mut(cache, k, f)} :
              \A s1 \in {iter(r.cache)} :
                  \A w \in Vals :
                      ShowsWrite(write(r.cache, r.ref, w), k, w, s1)
    /\ \A s1 \in {iter(cache)} :
          \A p \in 1..len(cache), front \in BOOLEAN :
              \A y \in {IterMutNth(IterMut_new(cache), cache.nodes, p, front)} :
                  \A w \in Vals :
                      ShowsWrite(write(cache, y.ref, w), y.ret[1][1], w, s1)
    /\ \A j \in Keys :
          /\ \A v \in Vals :
                /\ \A c1 \in {put(cache, j, v).cache, push(cache, j, v).cache} :
                      \A k \in Keys \ {j} : Kept(k, c1)
                /\ \A c1 \in {get_or_insert(cache, j, v).cache,
                               get_or_insert_mut(cache, j, v).cache} :
                      \A k \in Keys : Kept(k, c1)
          /\ \A c1 \in {get(cache, j).cache, get_mut(cache, j).cache,
                        peek(cache, j).cache, peek_mut(cache, j).cache,
                        contains(cache, j).cache, promote(cache, j).cache,
                        demote(cache, j).cache, pop(cache, j).cache,
                        pop_entry(cache, j).cache} :
                \A k \in Keys : Kept(k, c1)
    /\ \A c1 \in {peek_last(cache).cache, pop_last(cache).cache,
                  clear(cache).cache} \cup
                 {resize(cache, c).cache : c \in Caps} :
          \A k \in Keys : Kept(k, c1)

\* a cache of three entries whose last entry holds 1: a write of 2 through
\* peek_mut shows in peek and leaves the entry last; through get_mut it
\* shows and the entry is first
C23_Witness ==
    /\ len(cache) = 3
    /\ LET k == iter(cache)[3][1]
           p == peek_mut(cache, k)
           g == get_mut(cache, k)
       IN  /\ p.ret = Some(1)
           /\ iter(write(p.cache, p.ref, 2))[3] = <<k, 2>>
           /\ iter(write(g.cache, g.ref, 2))[1] = <<k, 2>>
           /\ write(p.cache, p.ref, 2) # cache

\* ------------------------------------------------------------ the service
\* a handler whose next step ends the task, by a return or by a panic
Ending(hd) ==
    \/ hd.pc \in {"d_ret", "u_ret"}
    \/ hd.pc = "u_field" /\ hd.req.body = Malformed

\* C28: with handlers running at the same time on one cache, at most one
\* handler is between write().await and the drop of its guard; a handler
\* that ends has made exactly one get (a download), exactly one put (an
\* upload with a file field) or no call at all; and the cache and every
\* response are those of the requests served one after another in the order
\* in which the handlers were given the lock.
C28_LockSerialises ==
    /\ Cardinality(lock) <= 1
    /\ \A h \in Handlers : handlers[h].pc \in Holding <=> h \in lock
    /\ lock = {} => cache = serial.cache
    /\ \A h \in Handlers :
         LET hd == handlers[h]
         IN  Ending(hd) =>
               /\ cache = serial.cache
               /\ Responds(hd) = serial.resp[h]
               /\ hd.gets = IF hd.req.kind = "download" THEN 1 ELSE 0
               /\ hd.puts = IF hd.req.kind = "upload" /\ hd.req.body \in Vals
                            THEN 1 ELSE 0

\* a download that found what another handler uploaded is about to return
\* while another upload waits for the lock
C28_Witness ==
    \E h \in Handlers : \E g \in Handlers \ {h} :
        /\ handlers[h].pc = "d_ret"
        /\ handlers[h].res # None
        /\ handlers[g].pc = "upload"
        /\ handlers[g].req.body \in Vals
        /\ len(cache) = 2

\* C29: a download whose get found nothing returns 404 with the body
\* "Data not found", and an upload without a file field returns 200 with
\* code "10001" and message "No data uploaded"; in both the cache is what it
\* was when the handler was given the lock; and a handler that is not
\* between write().await and the end of its body holds no guard, so that
\* the lock can be given to the next handler once no handler is there.
C29_MissAndEmptyUpload ==
    /\ \A h \in Handlers :
         LET hd == handlers[h]
         IN  /\ hd.pc = "d_ret" /\ hd.res = None =>
                  /\ Responds(hd) =
                         Response(404, -1, "Data not found", "", "", <<>>)
                  /\ cache = serial.before
             /\ hd.pc = "u_ret" /\ hd.req.body = NoField =>
                  /\ Responds(hd) =
                         Response(200, -1, "", "10001", "No data uploaded",
                                  <<>>)
                  /\ cache = serial.before
             /\ hd.pc \notin Holding => h \notin lock
    /\ (\A h \in Handlers : handlers[h].pc \notin Holding)
           => RwLock_write(lock)

\* C30: under cache_mode "unlimited" the service's cache is the unbounded
\* one, and no upload evicts an entry; under "item", "default", "capacity"
\* and any other cache_mode the cache has capacity cache_size and never
\* holds more than cache_size entries, before and after any upload; and
\* "capacity" builds the cache that "item" builds.
C30_CacheMode ==
    LET uploaded == {put(cache, Hash(buf), buf).cache : buf \in Vals}
    IN  /\ config.cache_mode = "unlimited" =>
              /\ cap(cache) = USIZE_MAX
              /\ \A c \in uploaded : DOMAIN cache.map \subseteq DOMAIN c.map
        /\ config.cache_mode # "unlimited" =>
              /\ cap(cache) = config.cache_size
              /\ len(cache) <= config.cache_size
              /\ \A c \in uploaded : len(c) <= config.cache_size
        /\ axum_serve("capacity", config.cache_size)
               = axum_serve("item", config.cache_size)

\* under "capacity" with cache_size 1 an upload has evicted the payload
\* uploaded before it
C30_Witness ==
    /\ config = [cache_mode |-> "capacity", cache_size |-> 1]
    /\ handlers[1].pc = "u_ret"
    /\ handlers[1].puts = 1
    /\ len(serial.before) = 1
    /\ len(cache) = 1
    /\ DOMAIN cache.map # DOMAIN serial.before.map

\* ---------------------------------------------------------------- teardown
\* the nodes on the heap that are no sigil: each holds one key, one value
Live(c) == DOMAIN c.nodes \ {HEAD, TAIL}

\* C21: of the keys and values handed to the cache by put, push and
\* get_or_insert(_mut), those neither dropped by the cache nor returned to
\* the caller are at any time exactly the ones in the nodes of the cache,
\* one key and one value in each node, each node indexed once; and after
\* the teardown, of the cache or of an owning iterator at any point, none
\* is left, no node is left on the heap, and Drop has dropped no slot that
\* held nothing and no node twice.  The slots of the two sigils hold
\* nothing as long as the sigils live, and Drop drops none of them.
C21_DroppedOrReturnedOnce ==
    IF it.kind = "dropped"
    THEN /\ owned.keys = 0
         /\ owned.values = 0
         /\ owned.bad = 0
         /\ DOMAIN cache.nodes = {}
    ELSE /\ owned.keys = Cardinality(Live(cache))
         /\ owned.values = Cardinality(Live(cache))
         /\ owned.bad = 0
         /\ \A a \in Live(cache) :
              /\ cache.nodes[a].key # UNINIT
              /\ cache.nodes[a].value # UNINIT
              /\ Cardinality({k \in DOMAIN cache.map : cache.map[k] = a}) = 1
         /\ \A a \in {HEAD, TAIL} :
              /\ cache.nodes[a].key = UNINIT
              /\ cache.nodes[a].value = UNINIT
         /\ Drop(cache).keys = Cardinality(Live(cache))
         /\ Drop(cache).values = Cardinality(Live(cache))

\* an owning iterator that had yielded one pair of a cache of three was
\* dropped, and with it the two pairs left
C21_Witness ==
    /\ it.kind = "dropped"
    /\ Len(snap) = 3
    /\ Len(yieldedFront) = 1
    /\ DOMAIN cache.nodes = {}

\* ------------------------------------------------------ the list, the index
RECURSIVE WalkNext(_, _, _)
\* the addresses met by following next from ptr up to the tail sigil; NULL
\* ends the walk when it leaves the heap or has made more than fuel steps
WalkNext(nodes, ptr, fuel) ==
    IF ptr = TAIL
    THEN <<>>
    ELSE IF ptr \notin DOMAIN nodes \/ fuel = 0
         THEN <<NULL>>
         ELSE <<ptr>> \o WalkNext(nodes, nodes[ptr].next, fuel - 1)

RECURSIVE WalkPrev(_, _, _)
\* the same by following prev from ptr up to the head sigil
WalkPrev(nodes, ptr, fuel) ==
    IF ptr = HEAD
    THEN <<>>
    ELSE IF ptr \notin DOMAIN nodes \/ fuel = 0
         THEN <<NULL>>
         ELSE <<ptr>> \o WalkPrev(nodes, nodes[ptr].prev, fuel - 1)

\* the nodes of the list of c, from the one after head to the one before tail
Forward(c) ==
    WalkNext(c.nodes, c.nodes[HEAD].next, Cardinality(DOMAIN c.nodes))

\* the nodes of the list of c, from the one before tail to the one after head
Backward(c) ==
    WalkPrev(c.nodes, c.nodes[TAIL].prev, Cardinality(DOMAIN c.nodes))

Range(s) == {s[i] : i \in 1..Len(s)}

\* C31: between calls the keys of the index are the keys of the nodes on
\* the list; the index, the list and len() count the same number of
\* entries; no two nodes of the list hold the same key; and the index maps
\* every key k to a node of the list whose key is k.
C31_IndexIsList ==
    LET w == Forward(cache)
    IN  /\ NULL \notin Range(w)
        /\ DOMAIN cache.map = {cache.nodes[a].key : a \in Range(w)}
        /\ Cardinality(DOMAIN cache.map) = Len(w)
        /\ len(cache) = Len(w)
        /\ \A i \in 1..Len(w), j \in 1..Len(w) :
              i # j => cache.nodes[w[i]].key # cache.nodes[w[j]].key
        /\ \A k \in DOMAIN cache.map :
              /\ cache.map[k] \in Range(w)
              /\ cache.nodes[cache.map[k]].key = k

\* a full cache of three entries
C31_Witness ==
    /\ Len(Forward(cache)) = 3
    /\ Cardinality(DOMAIN cache.map) = 3
    /\ cap(cache) = 3

\* C32: between calls head.prev and tail.next are null; head.next is tail
\* exactly when len() is 0; every node n between the sigils has
\* n.next.prev = n and n.prev.next = n; following next from head meets every
\* node that is no sigil once and then tail; and following prev from tail
\* meets the same nodes in the reverse order.
C32_WellFormedList ==
    LET w == Forward(cache)
        b == Backward(cache)
        n == cache.nodes
    IN  /\ n[HEAD].prev = NULL
        /\ n[TAIL].next = NULL
        /\ (n[HEAD].next = TAIL) <=> (len(cache) = 0)
        /\ NULL \notin Range(w)
        /\ Range(w) = DOMAIN n \ {HEAD, TAIL}
        /\ Cardinality(Range(w)) = Len(w)
        /\ \A a \in Range(w) :
              /\ n[a].next \in DOMAIN n
              /\ n[a].prev \in DOMAIN n
              /\ n[n[a].next].prev = a
              /\ n[n[a].prev].next = a
        /\ Len(b) = Len(w)
        /\ \A i \in 1..Len(w) : b[i] = w[Len(w) + 1 - i]

\* a list of three nodes whose order is not the order of their addresses
C32_Witness ==
    LET w == Forward(cache)
    IN  /\ Len(w) = 3
        /\ w[1] > w[2]
        /\ Backward(cache) = <<w[3], w[2], w[1]>>

\* ------------------------------------------------- the steps inside a call
\* The removal paths statement by statement: each operator gives the cache
\* after every statement of the method, the cache before the call first.
\* A key slot that was dropped or moved out holds UNINIT.

\* the full branch of replace_or_create_node: the index entry of the node
\* before tail is removed, its key and its value are replaced, and the node
\* is detached
replace_or_create_node_steps(c, k, v) ==
    IF len(c) = cap(c)
    THEN LET old_key == c.nodes[c.nodes[TAIL].prev].key
             old_node == c.map[old_key]
             s1 == [c EXCEPT !.map = MapRemove(c.map, old_key)]
             s2 == [s1 EXCEPT !.nodes[old_node].key = k]
             s3 == [s2 EXCEPT !.nodes[old_node].value = v]
             s4 == [s3 EXCEPT !.nodes = detach(s3.nodes, old_node)]
         IN  <<c, s1, s2, s3, s4>>
    ELSE <<c, replace_or_create_node(c, k, v).cache>>

\* pop that frees the node and drops its key before it removes the index
\* entry
pop_steps_free_first(c, k) ==
    IF k \in DOMAIN c.map
    THEN LET node == c.map[k]
             s1 == [c EXCEPT !.nodes = Unbox(c.nodes, node)]
             s2 == [s1 EXCEPT !.nodes[STACK].key = UNINIT]
             s3 == [s2 EXCEPT !.map = MapRemove(c.map, k)]
             s4 == [s3 EXCEPT !.nodes = detach(s3.nodes, STACK)]
             s5 == [s4 EXCEPT !.nodes = DropLocal(s4.nodes)]
         IN  <<c, s1, s2, s3, s4, s5>>
    ELSE <<c>>

\* pop: the index entry is removed, the node is moved out of its box, its
\* key is dropped in place, the local is detached and goes out of scope
pop_steps(c, k) ==
    IF k \in DOMAIN c.map
    THEN LET node == c.map[k]
             s1 == [c EXCEPT !.map = MapRemove(c.map, k)]
             s2 == [s1 EXCEPT !.nodes = Unbox(s1.nodes, node)]
             s3 == [s2 EXCEPT !.nodes[STACK].key = UNINIT]
             s4 == [s3 EXCEPT !.nodes = detach(s3.nodes, STACK)]
             s5 == [s4 EXCEPT !.nodes = DropLocal(s4.nodes)]
         IN  <<c, s1, s2, s3, s4, s5>>
    ELSE <<c>>

\* pop_entry: as pop, and the key is moved out with the value
pop_entry_steps(c, k) ==
    IF k \in DOMAIN c.map
    THEN LET node == c.map[k]
             s1 == [c EXCEPT !.map = MapRemove(c.map, k)]
             s2 == [s1 EXCEPT !.nodes = Unbox(s1.nodes, node)]
             s3 == [s2 EXCEPT !.nodes = detach(s2.nodes, STACK)]
             s4 == [s3 EXCEPT !.nodes[STACK].key = UNINIT]
             s5 == [s4 EXCEPT !.nodes = DropLocal(s4.nodes)]
         IN  <<c, s1, s2, s3, s4, s5>>
    ELSE <<c>>

\* detach_last: the index entry of the node before tail is removed, then
\* the node is detached
detach_last_steps(c) ==
    LET prev == c.nodes[TAIL].prev
    IN  IF prev # HEAD
        THEN LET old_key == c.nodes[prev].key
                 old_node == c.map[old_key]
                 s1 == [c EXCEPT !.map = MapRemove(c.map, old_key)]
                 s2 == [s1 EXCEPT !.nodes = detach(s1.nodes, old_node)]
             IN  <<c, s1, s2>>
        ELSE <<c>>

\* pop_last: detach_last, then the box is moved to a local and the key and
\* the value are moved out of it
pop_last_steps(c) ==
    LET r == detach_last(c)
    IN  IF r.node = None
        THEN detach_last_steps(c)
        ELSE LET s3 == [r.cache EXCEPT !.nodes = Unbox(r.cache.nodes, r.node[1])]
                 s4 == [s3 EXCEPT !.nodes[STACK].key = UNINIT]
                 s5 == [s4 EXCEPT !.nodes = DropLocal(s4.nodes)]
             IN  detach_last_steps(c) \o <<s3, s4, s5>>

\* the orders in which drain may hand out the entries of the index
DrainOrders(map) ==
    {o \in [1..Cardinality(DOMAIN map) -> DOMAIN map] :
        \A i, j \in DOMAIN o : i # j => o[i] # o[j]}

\* self.map.drain().for_each(..) handing out the entries in the order o:
\* the entry leaves the index, its node is moved out of its box, the key and
\* the value are dropped in place, and the local goes out of scope
RECURSIVE Drop_drain_steps(_, _, _)
Drop_drain_steps(c, o, i) ==
    IF i > Len(o)
    THEN <<>>
    ELSE LET node == c.map[o[i]]
             s1 == [c EXCEPT !.map = MapRemove(c.map, o[i])]
             s2 == [s1 EXCEPT !.nodes = Unbox(s1.nodes, node)]
             s3 == [s2 EXCEPT !.nodes[STACK].key = UNINIT]
             s4 == [s3 EXCEPT !.nodes[STACK].value = UNINIT]
             s5 == [s4 EXCEPT !.nodes = DropLocal(s4.nodes)]
         IN  <<s1, s2, s3, s4, s5>> \o Drop_drain_steps(s5, o, i + 1)

\* impl Drop for LRUCache, the drain in the order o and then the sigils
Drop_steps(c, o) ==
    LET drained == <<c>> \o Drop_drain_steps(c, o, 1)
        d == drained[Len(drained)]
    IN  drained \o <<[d EXCEPT !.nodes = [a \in DOMAIN d.nodes \ {HEAD, TAIL}
                                               |-> d.nodes[a]]]>>

\* every entry of the index refers to an allocated node on the heap whose
\* key slot holds the entry's key
KeyViewsLive(s) ==
    \A k \in DOMAIN s.map :
        /\ s.map[k] \in DOMAIN s.nodes \cap HeapAddrs
        /\ s.nodes[s.map[k]].key = k

\* the statements steps keep every key view live and end in the cache c
LiveUpTo(steps, c) ==
    /\ \A i \in 1..Len(steps) : KeyViewsLive(steps[i])
    /\ steps[Len(steps)] = c

\* the calls of one caller that insert and that remove, on the bounded
\* cache of every size, followed statement by statement
SpecSteps == Init /\ [][NextUnbounded]_vars

\* C33: After every statement of capacity eviction, pop, pop_entry, pop_last
\* and teardown, each entry of the index refers to an allocated node whose
\* key slot is initialised and holds the entry's key: the entry is removed
\* before the key is overwritten, dropped or moved out and before the node is
\* freed. The statements listed are those of the methods: each list ends in
\* the cache the method leaves.
C33_KeyViewsLive ==
    /\ \A k \in Keys, v \in Vals :
           LiveUpTo(replace_or_create_node_steps(cache, k, v),
                    replace_or_create_node(cache, k, v).cache)
    /\ \A k \in Keys :
           /\ LiveUpTo(pop_steps(cache, k), pop(cache, k).cache)
           /\ LiveUpTo(pop_entry_steps(cache, k), pop_entry(cache, k).cache)
    /\ LiveUpTo(pop_last_steps(cache), pop_last(cache).cache)
    /\ LET torn == Drop(cache).cache
       IN  \A o \in DrainOrders(cache.map) :
               LiveUpTo(Drop_steps(cache, o), torn)

\* a full cache holding two entries or more: an eviction, a pop of a key in
\* the middle and a teardown in more than one order can all happen next
C33_Witness ==
    /\ len(cache) = cap(cache)
    /\ len(cache) >= 2
    /\ \E k \in Keys : k \notin DOMAIN cache.map
    /\ Len(pop_steps(cache, cache.nodes[cache.nodes[HEAD].next].key)) = 6
    /\ Cardinality(DrainOrders(cache.map)) >= 2
\* ---------------------------------------------------------------- clone()
\* the fields of an LRUCache value: the index, the capacity and the
\* pointers to the two sigils
Self(c) == [map |-> c.map, cap |-> c.cap, head |-> HEAD, tail |-> TAIL]

\* #[derive(Clone)] clones field by field: the index is cloned entry by
\* entry, and the clone of a KeyRef, of a NonNull and of a raw pointer is
\* the same address
clone(self) ==
    [map |-> [k \in DOMAIN self.map |-> self.map[k]],
     cap |-> self.cap,
     head |-> self.head,
     tail |-> self.tail]

\* the cache that the instance self is on the heap nodes
View(self, nodes) == [nodes |-> nodes, map |-> self.map, cap |-> self.cap]

\* the caller clones the cache
Clone ==
    /\ it.kind = "none"
    /\ twin.state = "none"
    /\ twin' = [state |-> "live", self |-> clone(Self(cache)),
                made |-> iter(cache)]
    /\ UNCHANGED <<cache, tracking, touched, inserted, itervars, httpvars,
                   owned>>

\* the clone goes out of scope: Drop runs on it, on the heap as it is
TeardownTwin ==
    /\ twin.state = "live"
    /\ LET d == Drop(View(twin.self, cache.nodes))
       IN  /\ cache' = [cache EXCEPT !.nodes = d.cache.nodes]
           /\ owned' = [owned EXCEPT !.keys = @ - d.keys,
                                     !.values = @ - d.values,
                                     !.bad = @ + d.bad]
    /\ twin' = [twin EXCEPT !.state = "dropped"]
    /\ UNCHANGED <<tracking, touched, inserted, itervars, httpvars>>

\* a call on the cache while no instance has been torn down: after the
\* teardown of one instance every call on the other reads freed memory,
\* and the model follows the other only to its own teardown
NoneFreed == twin.state # "dropped"

NextClone ==
    \/ \E k \in Keys : NoneFreed /\ Put(k, 1)
    \/ \E k \in Keys : NoneFreed /\ Get(k)
    \/ \E k \in Keys : NoneFreed /\ Pop(k)
    \/ NoneFreed /\ PopLast
    \/ Clone
    \/ Teardown
    \/ TeardownTwin

SpecClone == InitDrop /\ [][NextClone]_vars

\* the addresses an instance refers to: its sigils and the nodes of its
\* index
Refers(self) == {self.head, self.tail} \cup {self.map[k] : k \in DOMAIN self.map}

\* the pairs met by walking the list of c from its head, a node that is no
\* longer on the heap counting as a pair of nothing
Pairs(c) ==
    [i \in 1..Len(Forward(c)) |->
        IF Forward(c)[i] \in DOMAIN c.nodes
        THEN <<c.nodes[Forward(c)[i]].key, c.nodes[Forward(c)[i]].value>>
        ELSE <<UNINIT, UNINIT>>]

\* C34: Each node is owned by one instance. While the cache and its clone
\* are both live they refer to no common node and no common sigil, and the
\* clone's entries, order and len are what they were when it was made,
\* whatever has been called on the cache since; once both are torn down
\* every node and every sigil was freed exactly once.
C34_OneOwner ==
    /\ twin.state = "live" /\ it.kind # "dropped" =>
         /\ Refers(twin.self) \cap Refers(Self(cache)) = {}
         /\ Pairs(View(twin.self, cache.nodes)) = twin.made
         /\ Cardinality(DOMAIN twin.self.map) = Len(twin.made)
    /\ twin.state = "dropped" /\ it.kind = "dropped" =>
         /\ owned.bad = 0
         /\ DOMAIN cache.nodes = {}
\* ------------------------------------------------ payloads sharing a hash
\* the uploads of every payload, Colliding among them, and the downloads of
\* every key an upload returns
Stored ==
    [kind : {"upload"}, key : {CtlKey}, body : Vals \cup {Colliding}]
    \cup [kind : {"download"}, key : {Hash(buf) : buf \in Vals},
          body : {NoField}]

\* the bounded cache of every size, with the history of the uploads kept
InitCollide ==
    /\ \E cfg \in [cache_mode : {"item"}, cache_size : Caps] : Serving(cfg)
    /\ returned = [on |-> TRUE, bufs |-> {}]

NextCollide ==
    \E h \in Handlers :
        \/ \E req \in Stored : Arrive(h, req)
        \/ Acquire(h)
        \/ DownloadGet(h)
        \/ DownloadReturn(h)
        \/ UploadField(h)
        \/ UploadBytes(h)
        \/ UploadPut(h)
        \/ UploadReturn(h)

SpecCollide == InitCollide /\ [][NextCollide]_vars

\* C35: In the service every entry of the cache has the hash of its bytes
\* as its key, whatever uploads and downloads have run and in whatever
\* order, so that a download that hits returns a payload whose hash is the
\* key requested.
C35_KeyIsHash ==
    /\ \A k \in DOMAIN cache.map :
         /\ cache.nodes[cache.map[k]].key = k
         /\ k = Hash(cache.nodes[cache.map[k]].value)
    /\ \A h \in Handlers :
         handlers[h].pc = "d_ret" /\ handlers[h].res # None =>
             /\ Responds(handlers[h]).status = 200
             /\ Hash(Responds(handlers[h]).data[1]) = handlers[h].req.key

\* a download hits while the cache holds two entries
C35_Witness ==
    /\ len(cache) = 2
    /\ \E h \in Handlers :
         /\ handlers[h].pc = "d_ret"
         /\ handlers[h].res # None
\* C36: Once an upload of a payload has returned its key, every download
\* of that key served afterwards returns 404 or exactly that payload,
\* whatever other handlers upload and download in between, uploads of
\* another payload with the same hash included.
C36_UploadedBytesStay ==
    \A h \in Handlers :
        handlers[h].pc = "d_ret" =>
            \A buf \in returned.bufs :
                Hash(buf) = handlers[h].req.key =>
                    \/ Responds(handlers[h]).status = 404
                    \/ /\ Responds(handlers[h]).status = 200
                       /\ Responds(handlers[h]).data = <<buf>>
\* ------------------------------------------------------ the fair scheduler
\* the steps of handler h that wait for its client to send the body
AwaitsClient == {"u_field", "u_bytes"}

\* what the runtime guarantees to a handler task: write() queues the
\* callers, so that a task that asks for the guard gets it if the guard is
\* dropped again and again, and a task that can run without its client is
\* polled until it returns.  A client may stop sending at any time: the two
\* awaits on the body have no fairness, and neither has the arrival of a
\* request
Scheduled(h) ==
    /\ SF_vars(Acquire(h))
    /\ WF_vars(DownloadGet(h))
    /\ WF_vars(DownloadReturn(h))
    /\ WF_vars(UploadPut(h))
    /\ WF_vars(UploadReturn(h))

SpecFair ==
    InitShared /\ [][NextHttp]_vars /\ \A h \in Handlers : Scheduled(h)

\* C37: No handler holds the guard of the cache's lock while it waits for
\* its client, and so, under the fair scheduling of the handlers, every
\* download that has started ends with its response, whatever the clients
\* of the uploads send or fail to send.
C37_DownloadResponds ==
    /\ [](\A h \in Handlers : handlers[h].pc \in AwaitsClient => h \notin lock)
    /\ \A h \in Handlers :
           (handlers[h].pc = "download") ~> (handlers[h].pc = "idle")
====
